---- MODULE Spec2Model ----
(***************************************************************************)
(* Model of the Math Copy Extension content script (src/content.js):       *)
(* equation detection and tagging (DOMProcessor), extraction               *)
(* (EquationProcessor), clipboard write and the copy controller.           *)
(***************************************************************************)
EXTENDS Integers, Sequences, FiniteSets, TLC

(***************************************************************************)
(* Bounds of the model and program constants                               *)
(***************************************************************************)
\* number of nodes the page may insert besides the initial equations
MaxNodes == 2
\* number of equations of one renderer present when the script starts
PadCount == 10
\* number of processExistingEquations runs triggered by forceDetection
MaxForce == 1
\* number of direct calls of the extraction
MaxCalls == 1
\* number of copy operations and direct calls
MaxCopies == 1
\* CONFIG.BATCH_SIZE
BATCH_SIZE == 10

Null == 0

(***************************************************************************)
(* Strings.  A string is a sequence of lexemes [k, v, a, o, n]:            *)
(*   k = "chr"    the character v, repeated n times                        *)
(*   k = "ent"    the character reference &v; (HTML serialisation)         *)
(*   k = "cmd"    the LaTeX control sequence \v                            *)
(*   k = "open"   the start tag <v ...> with the attributes a              *)
(*   k = "close"  the end tag </v>                                         *)
(* o names the equation the lexeme comes from (0: written by the script).  *)
(***************************************************************************)
Chr(v, n) == [k |-> "chr", v |-> v, a |-> {}, o |-> 0, n |-> n]
Cmd(v) == [k |-> "cmd", v |-> v, a |-> {}, o |-> 0, n |-> 1]
Open(v, a) == [k |-> "open", v |-> v, a |-> a, o |-> 0, n |-> 1]
Close(v) == [k |-> "close", v |-> v, a |-> {}, o |-> 0, n |-> 1]

\* the value null (a string is never this sequence)
NullStr == <<[k |-> "null", v |-> "", a |-> {}, o |-> 0, n |-> 0]>>

\* !content : null and '' are falsy
Falsy(s) == s = NullStr \/ s = <<>>

\* the lexemes of s, as coming from equation q
Stamp(s, q) == [i \in 1..Len(s) |-> [s[i] EXCEPT !.o = q]]

NameLen(v) ==
    CASE v \in {"mi", "mo", "mn", "lt", "gt"} -> 2
      [] v \in {"foo", "sup", "sub", "amp", "sum"} -> 3
      [] v \in {"math", "mrow", "span"} -> 4
      [] v \in {"mtext", "alpha"} -> 5
      [] v \in {"mspace", "script"} -> 6
      [] v = "mpadded" -> 7
      [] v = "semantics" -> 9
      [] v = "annotation" -> 10
      [] OTHER -> 1

\* the characters of one attribute with its value, e.g.
\* ' xmlns="http://www.w3.org/1998/Math/MathML"'
AttrLen(a) ==
    CASE a = "xmlns" -> 43
      [] a = "encoding" -> 29
      [] a = "data-katex-processed" -> 28
      [] a = "width0" -> 10
      [] OTHER -> 9

RECURSIVE SumAttrLen(_)
SumAttrLen(as) ==
    IF as = {} THEN 0
    ELSE LET a == CHOOSE x \in as : TRUE IN AttrLen(a) + SumAttrLen(as \ {a})

\* number of characters of one lexeme
Width(t) ==
    CASE t.k = "chr" -> t.n
      [] t.k = "ent" -> (NameLen(t.v) + 2) * t.n
      [] t.k = "cmd" -> NameLen(t.v) + 1
      [] t.k = "open" -> NameLen(t.v) + 2 + SumAttrLen(t.a)
      [] t.k = "close" -> NameLen(t.v) + 3
      [] OTHER -> 0

\* String.prototype.length
RECURSIVE StrLen(_)
StrLen(s) == IF s = <<>> THEN 0 ELSE Width(s[1]) + StrLen(Tail(s))

\* white space of String.prototype.trim and of \s
IsSpace(t) == t.k = "chr" /\ t.v = " "
\* the invisible characters U+200B..U+200D, U+FEFF, U+2009, U+200A
IsInvisible(t) == t.k = "chr" /\ t.v = "zw"
IsTag(t) == t.k \in {"open", "close"}

RECURSIVE TrimLeft(_)
TrimLeft(s) == IF s # <<>> /\ IsSpace(s[1]) THEN TrimLeft(Tail(s)) ELSE s

RECURSIVE TrimRight(_)
TrimRight(s) ==
    IF s # <<>> /\ IsSpace(s[Len(s)]) THEN TrimRight(SubSeq(s, 1, Len(s) - 1)) ELSE s

\* String.prototype.trim
Trim(s) == TrimRight(TrimLeft(s))

\* mathml.includes('xmlns=')
IncludesXmlns(s) == \E i \in 1..Len(s) : s[i].k = "open" /\ "xmlns" \in s[i].a

\* mathml.includes('<math')
IncludesMath(s) == \E i \in 1..Len(s) : s[i].k = "open" /\ s[i].v = "math"

\* out.startsWith('<math')
StartsWithMath(s) == s # <<>> /\ s[1].k = "open" /\ s[1].v = "math"

\* mathml.replace('<math', '<math xmlns="http://www.w3.org/1998/Math/MathML"'):
\* the first occurrence only
AddXmlns(s) ==
    IF ~IncludesMath(s) THEN s
    ELSE LET i == CHOOSE j \in 1..Len(s) :
                     /\ s[j].k = "open" /\ s[j].v = "math"
                     /\ \A h \in 1..(j - 1) : ~(s[h].k = "open" /\ s[h].v = "math")
         IN [s EXCEPT ![i].a = @ \cup {"xmlns"}]

\* the HTML serialisation of text: & < > become character references
EscapeHtml(s) ==
    [i \in 1..Len(s) |->
        IF s[i].k = "chr" /\ s[i].v \in {"&", "<", ">"}
        THEN [s[i] EXCEPT !.k = "ent",
                          !.v = IF s[i].v = "&" THEN "amp"
                                ELSE IF s[i].v = "<" THEN "lt" ELSE "gt"]
        ELSE s[i]]

(***************************************************************************)
(* The document: a sequence of element records in document (pre-)order.    *)
(* parent = 0 is document.body.  kind stands for the one class, tag or     *)
(* attribute of the element that the selectors of the script look at.      *)
(***************************************************************************)
MathJaxKinds == {"MathJax", "mjx-chtml", "mjx-container"}

\* the kinds of element the page inserts ("span": no class the script looks at)
RegistryKinds == {"katex", "katex-html", "MathJax", "math", "data-math", "span"}

PadKinds == {"none", "katex", "math", "mjx-chtml"}

\* attr: the source attribute of the element (data-latex, data-math), NullStr
\* when absent; text: its own text, which precedes its children; xmlns: it
\* declares the MathML namespace; tex: the source MathJax keeps for it;
\* eq: the equation it belongs to
El(p, k, a, t) ==
    [parent |-> p, kind |-> k, attr |-> a, text |-> t, xmlns |-> FALSE,
     tex |-> NullStr, eq |-> 0]

Node(p, k) == El(p, k, NullStr, <<>>)

\* the equations of one renderer that are in the page when the script starts:
\* KaTeX equations are a .katex element with its .katex-html child
RECURSIVE PadDocument(_, _)
PadDocument(k, n) ==
    IF n = 0 \/ k = "none" THEN <<>>
    ELSE LET d == PadDocument(k, n - 1) IN
         IF k = "katex"
         THEN d \o <<Node(0, "katex"), Node(Len(d) + 1, "katex-html")>>
         ELSE Append(d, Node(0, k))

MaxId == 2 * (PadCount + 1) + MaxNodes + 1
NodeIds == 1..MaxId

\* element.closest(selector): the nearest inclusive ancestor whose kind is in ks
RECURSIVE Closest(_, _, _)
Closest(d, n, ks) ==
    IF n = Null THEN Null
    ELSE IF d[n].kind \in ks THEN n
    ELSE Closest(d, d[n].parent, ks)

\* the inclusive ancestors of n
RECURSIVE InclAncestors(_, _)
InclAncestors(d, n) ==
    IF n = Null THEN {} ELSE {n} \cup InclAncestors(d, d[n].parent)

Ancestors(d, n) == InclAncestors(d, n) \ {n}

\* document.querySelectorAll(sel + ':not([data-katex-processed])'), in document order
RECURSIVE SelectFrom(_, _, _, _)
SelectFrom(d, ks, marked, i) ==
    IF i > Len(d) THEN <<>>
    ELSE IF d[i].kind \in ks /\ i \notin marked
         THEN <<i>> \o SelectFrom(d, ks, marked, i + 1)
         ELSE SelectFrom(d, ks, marked, i + 1)

QueryUnprocessed(d, ks, marked) == SelectFrom(d, ks, marked, 1)

(***************************************************************************)
(* EquationRegistry: DOMProcessor.processBatch / findMathContainer /       *)
(* setupEquation / setupEquationListeners.                                 *)
(* A registry value r packs the tagging state:                             *)
(*   attr      elements carrying data-katex-processed                      *)
(*   pset      state.processedElements                                     *)
(*   mce       elements carrying the class math-copy-element               *)
(*   handlers  keys of state.equationHandlers (listeners attached)         *)
(*   khtml     container -> its _katexHtmlElement                          *)
(*   timers    pending setTimeout(.., 0) batch continuations, FIFO         *)
(* and the observations the properties are stated on:                      *)
(*   calls     how often processBatch handed the element to setupEquation  *)
(*   wire      how often setupEquationListeners ran on the element         *)
(*   containers   elements tagged as a container                           *)
(*   nested    containers tagged or wired below an already tagged one      *)
(*   late      containers handed to setupEquation by a repeated scan       *)
(***************************************************************************)

\* DOMProcessor.findMathContainer
FindMathContainer(d, e) ==
    IF d[e].kind = "katex-html" THEN Closest(d, e, {"katex"})
    ELSE IF d[e].kind = "katex" THEN e
    ELSE IF Closest(d, e, MathJaxKinds) # Null THEN Closest(d, e, MathJaxKinds)
    ELSE IF Closest(d, e, {"math"}) # Null THEN Closest(d, e, {"math"})
    ELSE IF Closest(d, e, {"katex"}) # Null THEN Closest(d, e, {"katex"})
    ELSE e

\* DOMProcessor.setupEquationListeners
SetupEquationListeners(r, c) ==
    [r EXCEPT !.handlers = @ \cup {c}, !.wire[c] = @ + 1]

\* DOMProcessor.setupEquation
RECURSIVE SetupEquation(_, _, _)
SetupEquation(r, d, c) ==
    IF c = Null THEN r
    ELSE IF c \in r.mce THEN r
    ELSE IF d[c].parent # Null /\ d[c].parent \in r.mce THEN r
    ELSE IF d[c].kind = "katex-html"
         THEN LET kc == Closest(d, c, {"katex"}) IN
              IF kc # Null /\ kc # c THEN SetupEquation(r, d, kc) ELSE r
    ELSE SetupEquationListeners([r EXCEPT !.mce = @ \cup {c}], c)

\* (mutants) the marker is not set; the marker is set on the matched element
MarkContainer_NotSet(marked, element, container) == marked

MarkContainer_OnElement(marked, element, container) == marked \cup {element}

\* container.setAttribute('data-katex-processed', 'true') in processBatch
MarkContainer(marked, element, container) == marked \cup {container}

\* the try block of one iteration of the forEach of processBatch; an element
\* of r.faulty throws at its first statement
TryElement(r, d, e, late) ==
    IF e \in r.faulty THEN [r EXCEPT !.thrown = TRUE]
    ELSE IF e \in r.attr THEN r
    ELSE LET c == IF d[e].kind = "katex-html" THEN Closest(d, e, {"katex"})
                  ELSE FindMathContainer(d, e) IN
         IF c = Null \/ c \in r.attr THEN r
         ELSE LET s == SetupEquation(r, d, c)
                  both == IF d[e].kind = "katex-html" THEN {e} ELSE {} IN
              [s EXCEPT
                 !.attr = MarkContainer(@, e, c) \cup both,
                 !.pset = @ \cup {c} \cup both,
                 !.khtml[c] = IF d[e].kind = "katex-html" THEN e ELSE @,
                 !.calls[c] = @ + 1,
                 !.containers = @ \cup {c},
                 !.nested = IF Ancestors(d, c) \cap r.containers # {}
                            THEN @ \cup {c} ELSE @,
                 !.late = IF late THEN @ \cup {c} ELSE @,
                 !.order = Append(@, c)]

\* (mutant) the iteration without its catch clause
CatchElement_Rethrown(r) == r

\* the catch clause of the iteration: the error is logged
CatchElement(r) == [r EXCEPT !.thrown = FALSE]

\* one iteration of the forEach of processBatch
ProcessElement(r, d, e, late) == CatchElement(TryElement(r, d, e, late))

\* F applied to the value of v, which is computed once
Then(v, F(_)) == CHOOSE y \in {F(x) : x \in {v}} : TRUE

RECURSIVE ProcessRange(_, _, _, _, _, _)
ProcessRange(r, d, elements, i, last, late) ==
    IF i > last \/ r.thrown THEN r
    ELSE Then(ProcessElement(r, d, elements[i], late),
              LAMBDA s : ProcessRange(s, d, elements, i + 1, last, late))

\* (mutant) the whole list in one batch
Min_Second(a, b) == b

Min(a, b) == IF a < b THEN a ELSE b

\* DOMProcessor.processBatch(elements, startIndex): startIndex counts from 0
ProcessBatch(r, d, elements, startIndex, clean, late) ==
    IF startIndex >= Len(elements) THEN r
    ELSE LET endIndex == Min(startIndex + BATCH_SIZE, Len(elements)) IN
         Then(ProcessRange(r, d, elements, startIndex + 1, endIndex, late),
              LAMBDA s :
                 IF s.thrown THEN s
                 ELSE IF endIndex < Len(elements)
                 THEN [s EXCEPT !.timers = Append(@, [elements |-> elements,
                                                       start |-> endIndex,
                                                       clean |-> clean, late |-> late])]
                 ELSE s)

\* the selectors of processExistingEquations / processMutations, in order
OtherSelectors == <<{"MathJax"}, {"mjx-chtml"}, {"mjx-container"}, {"math"}, {"data-math"}>>

RECURSIVE ScanOthers(_, _, _, _, _)
ScanOthers(r, d, i, clean, late) ==
    IF i > Len(OtherSelectors) THEN r
    ELSE Then(ProcessBatch(r, d, QueryUnprocessed(d, OtherSelectors[i], r.attr),
                           0, clean, late),
              LAMBDA s : ScanOthers([s EXCEPT !.thrown = FALSE], d, i + 1, clean, late))

\* DOMProcessor.processExistingEquations
ProcessExistingEquations(r, d, clean, late) ==
    Then(ProcessBatch(r, d, QueryUnprocessed(d, {"katex-html"}, r.attr),
                      0, clean, late),
         LAMBDA s : IF s.thrown THEN s ELSE ScanOthers(s, d, 1, clean, late))

(***************************************************************************)
(* DOM queries and serialisation used by the extraction                    *)
(***************************************************************************)
Ids(d) == [i \in 1..Len(d) |-> i]

\* the subtree of n in document order (n = Null: document.body, all elements)
Subtree(d, n) == SelectSeq(Ids(d), LAMBDA i : n = Null \/ n \in InclAncestors(d, i))

Descendants(d, n) == SelectSeq(Ids(d), LAMBDA i : n = Null \/ n \in Ancestors(d, i))

\* root.querySelector(selector): the first descendant whose kind is in ks
First(ids) == IF ids = <<>> THEN Null ELSE ids[1]

QuerySelector(d, n, ks) ==
    First(SelectSeq(Descendants(d, n), LAMBDA i : d[i].kind \in ks))

\* a || b on element references
Or(a, b) == IF a # Null THEN a ELSE b

Children(d, n) == SelectSeq(Ids(d), LAMBDA i : d[i].parent = n)

RECURSIVE TextOf(_, _)
TextOf(d, ids) == IF ids = <<>> THEN <<>> ELSE d[ids[1]].text \o TextOf(d, Tail(ids))

\* node.textContent
TextContent(d, n) == TextOf(d, Subtree(d, n))

\* EquationProcessor.toSuperscript / toSubscript on the characters of the model
Transliterate(s, map) ==
    [i \in 1..Len(s) |->
        IF s[i].k = "chr" /\ s[i].v = "2" THEN [s[i] EXCEPT !.v = map] ELSE s[i]]

\* the loop of extractTextContent: the walker yields the nodes below the root;
\* a sup / sub element adds its transliterated text, a text node its text
RECURSIVE WalkText(_, _, _)
WalkText(d, ids, root) ==
    IF ids = <<>> THEN <<>>
    ELSE LET i == ids[1]
             own == IF i = root THEN <<>>
                    ELSE IF d[i].kind = "sup" THEN Transliterate(TextContent(d, i), "sup2")
                    ELSE IF d[i].kind = "sub" THEN Transliterate(TextContent(d, i), "sub2")
                    ELSE <<>>
         IN own \o d[i].text \o WalkText(d, Tail(ids), root)

\* EquationProcessor.extractTextContent (and convertToUnicode)
ExtractTextContent(d, n) ==
    IF n = Null THEN NullStr ELSE Trim(WalkText(d, Subtree(d, n), n))

MathMLTags == {"math", "semantics", "annotation", "mrow", "mi", "mo", "mn",
               "mtext", "mspace", "mpadded"}

\* the attributes the serialisation of n shows: its own, those the registry
\* has set on it (setupEquation, processBatch) and its feedback classes
AttributesOf(r, d, n) ==
    (IF d[n].xmlns THEN {"xmlns"} ELSE {})
    \cup (IF d[n].kind = "annotation" THEN {"encoding"} ELSE {})
    \cup (IF d[n].kind = "mpadded" THEN {"width0"} ELSE {})
    \cup (IF d[n].kind \notin MathMLTags THEN {"class"} ELSE {})
    \cup (IF n \in r.mce THEN {"math-copy-element"} ELSE {})
    \cup (IF n \in r.attr THEN {"data-katex-processed"} ELSE {})
    \cup r.cls[n]

\* element.outerHTML
RECURSIVE OuterHTML(_, _, _)
RECURSIVE OuterHTMLs(_, _, _)
OuterHTML(r, d, n) ==
    LET tag == IF d[n].kind \in MathMLTags THEN d[n].kind ELSE "span" IN
    <<[Open(tag, AttributesOf(r, d, n)) EXCEPT !.o = d[n].eq]>>
    \o EscapeHtml(d[n].text) \o OuterHTMLs(r, d, Children(d, n))
    \o <<[Close(tag) EXCEPT !.o = d[n].eq]>>

OuterHTMLs(r, d, ids) ==
    IF ids = <<>> THEN <<>> ELSE OuterHTML(r, d, ids[1]) \o OuterHTMLs(r, d, Tail(ids))

\* element.innerHTML
InnerHTML(r, d, n) == EscapeHtml(d[n].text) \o OuterHTMLs(r, d, Children(d, n))

(***************************************************************************)
(* FormatConverter: the pure conversions of EquationProcessor              *)
(***************************************************************************)
\* EquationProcessor.cleanLatex: latex.replace(/^\$|\$$/, '').trim(); the
\* pattern has no g flag, so only the first match is removed
CleanLatex(s) ==
    IF s # <<>> /\ s[1].k = "chr" /\ s[1].v = "$"
    THEN Trim(IF s[1].n > 1 THEN [s EXCEPT ![1].n = @ - 1] ELSE Tail(s))
    ELSE IF s # <<>> /\ s[Len(s)].k = "chr" /\ s[Len(s)].v = "$"
    THEN Trim(IF s[Len(s)].n > 1 THEN [s EXCEPT ![Len(s)].n = @ - 1]
              ELSE SubSeq(s, 1, Len(s) - 1))
    ELSE Trim(s)

\* ensureMathMLNamespace on the trimmed string
EnsureNamespaceOf(out) ==
    IF IncludesXmlns(out) THEN out
    ELSE IF StartsWithMath(out) THEN AddXmlns(out)
    ELSE <<Open("math", {"xmlns"})>> \o out \o <<Close("math")>>

\* EquationProcessor.ensureMathMLNamespace
EnsureMathMLNamespace(s) == EnsureNamespaceOf(Trim(s))

\* .replace(/<mspace[^>]*\/?>/gi, '')
DropMspace(s) == SelectSeq(s, LAMBDA t : ~(t.k = "open" /\ t.v = "mspace"))

\* index of the first lexeme of s at or after i that is neither white space
\* nor an invisible character (Len(s) + 1 if there is none)
RECURSIVE SkipBlank(_, _)
SkipBlank(s, i) ==
    IF i <= Len(s) /\ (IsSpace(s[i]) \/ IsInvisible(s[i])) THEN SkipBlank(s, i + 1) ELSE i

\* .replace(/<mtext[^>]*>[\sINVISIBLE]*<\/mtext>/gi, '')
RECURSIVE DropBlankMtext(_)
DropBlankMtext(s) ==
    IF s = <<>> THEN <<>>
    ELSE IF s[1].k = "open" /\ s[1].v = "mtext"
         THEN LET j == SkipBlank(s, 2) IN
              IF j <= Len(s) /\ s[j].k = "close" /\ s[j].v = "mtext"
              THEN DropBlankMtext(SubSeq(s, j + 1, Len(s)))
              ELSE <<s[1]>> \o DropBlankMtext(Tail(s))
         ELSE <<s[1]>> \o DropBlankMtext(Tail(s))

\* .replace(/[INVISIBLE]/g, '')
DropInvisible(s) == SelectSeq(s, LAMBDA t : ~IsInvisible(t))

\* the two replacements of <mpadded ... width="0..."> and of widths below 0.05em
DropMpadded(s) ==
    SelectSeq(s, LAMBDA t : ~(t.k = "open" /\ t.v = "mpadded" /\ "width0" \in t.a))

\* index of the first tag of s at or after i (Len(s) + 1 if there is none)
RECURSIVE SkipText(_, _)
SkipText(s, i) == IF i <= Len(s) /\ ~IsTag(s[i]) THEN SkipText(s, i + 1) ELSE i

\* .replace(/(<mo[^>]*>)([^<]+)(<\/mo>)/gi, ...): the content of an operator
\* is trimmed and loses its invisible characters
RECURSIVE TrimOperators(_)
TrimOperators(s) ==
    IF s = <<>> THEN <<>>
    ELSE IF s[1].k = "open" /\ s[1].v = "mo"
         THEN LET j == SkipText(s, 2) IN
              IF j > 2 /\ j <= Len(s) /\ s[j].k = "close" /\ s[j].v = "mo"
              THEN <<s[1]>> \o DropInvisible(Trim(SubSeq(s, 2, j - 1))) \o <<s[j]>>
                   \o TrimOperators(SubSeq(s, j + 1, Len(s)))
              ELSE <<s[1]>> \o TrimOperators(Tail(s))
         ELSE <<s[1]>> \o TrimOperators(Tail(s))

\* .replace(/X[ \t\r\nINVISIBLE]*</g, 'X<') where X is '>'
\* or one of the end tags named by tags: white space between X and the next
\* '<' is removed
RECURSIVE DropSpaceAfter(_, _, _)
DropSpaceAfter(s, anyTag, tags) ==
    IF s = <<>> THEN <<>>
    ELSE LET left == IF anyTag THEN IsTag(s[1])
                     ELSE s[1].k = "close" /\ s[1].v \in tags
             j == SkipBlank(s, 2) IN
         IF left /\ j > 2 /\ j <= Len(s) /\ IsTag(s[j])
         THEN <<s[1]>> \o DropSpaceAfter(SubSeq(s, j, Len(s)), anyTag, tags)
         ELSE <<s[1]>> \o DropSpaceAfter(Tail(s), anyTag, tags)

\* EquationProcessor.cleanMathMLSpacing
CleanMathMLSpacing(s) ==
    LET s1 == DropMspace(s)
        s2 == DropBlankMtext(s1)
        s3 == DropInvisible(s2)
        s4 == DropMpadded(s3)
        s5 == TrimOperators(s4)
        s6 == DropSpaceAfter(s5, TRUE, {})
        s7 == DropSpaceAfter(s6, FALSE, {"mo"})
    IN DropSpaceAfter(s7, FALSE, {"mo", "mi", "mn", "mfrac", "msup", "msub",
                                  "munder", "mover", "mrow"})

\* the substitutions of convertLatexToMathML for the control sequences of the
\* model: \sum -> <mo>&#8721;</mo>, \alpha -> <mi>&#945;</mi>; any other
\* control sequence is left in place
RECURSIVE SubstituteLatex(_)
SubstituteLatex(s) ==
    IF s = <<>> THEN <<>>
    ELSE (IF s[1].k = "cmd" /\ s[1].v = "sum"
          THEN <<[Open("mo", {}) EXCEPT !.o = s[1].o],
                 [Chr("sum", 1) EXCEPT !.o = s[1].o],
                 [Close("mo") EXCEPT !.o = s[1].o]>>
          ELSE IF s[1].k = "cmd" /\ s[1].v = "alpha"
          THEN <<[Open("mi", {}) EXCEPT !.o = s[1].o],
                 [Chr("alpha", 1) EXCEPT !.o = s[1].o],
                 [Close("mi") EXCEPT !.o = s[1].o]>>
          ELSE <<s[1]>>) \o SubstituteLatex(Tail(s))

\* convertLatexToMathML: the result of the substitutions is wrapped in math
\* tags if it has none
WrapInMath(m) ==
    IF IncludesMath(m) THEN m
    ELSE <<Open("math", {"xmlns"}), Open("mrow", {})>> \o m
         \o <<Close("mrow"), Close("math")>>

\* EquationProcessor.convertLatexToMathML
ConvertLatexToMathML(s) == EnsureMathMLNamespace(WrapInMath(SubstituteLatex(s)))

(***************************************************************************)
(* EquationProcessor.  w is the page environment the script sees:          *)
(*   w.mathJax    "none", "v2" (window.MathJax.Hub), "v3" (.startup)       *)
(*   w.apiThrows  a call into the MathJax API throws                       *)
(***************************************************************************)
validFormats == {"mathml", "latex", "unicode", "asciimath"}
defaultFormat == "mathml"

\* mathItems[0].math, if there is a MathItem
FirstItemSource(d, items) == IF items # <<>> THEN d[items[1]].tex ELSE NullStr

\* EquationProcessor.getMathJaxV3Source: the source attributes data-mjx-alt /
\* data-mjx-latex are absent from the documents of the model; the first
\* MathItem within the element gives the source
GetMathJaxV3Source(w, d, element) ==
    IF w.apiThrows THEN NullStr
    ELSE FirstItemSource(d, SelectSeq(Subtree(d, element), LAMBDA i : ~Falsy(d[i].tex)))

\* the for loop of getMathJaxV2Source over an element and its ancestors:
\* the first source script below p, else a source attribute of p, else on
RECURSIVE V2ScriptSource(_, _, _)
RECURSIVE V2ScriptStep(_, _, _, _)
V2ScriptSource(d, p, i) ==
    IF i >= 5 THEN NullStr ELSE V2ScriptStep(d, p, i, QuerySelector(d, p, {"script"}))

V2ScriptStep(d, p, i, script) ==
    IF script # Null THEN TextContent(d, script)
    ELSE IF p = Null THEN NullStr
    ELSE IF ~Falsy(d[p].attr) THEN d[p].attr
    ELSE V2ScriptSource(d, d[p].parent, i + 1)

\* jax.originalText of the first matching Jax, else the script fallback
FirstJaxSource(d, jax, element) ==
    IF jax # <<>> THEN TextContent(d, jax[1]) ELSE V2ScriptSource(d, element, 0)

\* EquationProcessor.getMathJaxV2Source: a Jax whose source element (its
\* script) is, contains or is contained in the element gives originalText
GetMathJaxV2Source(w, d, element) ==
    IF w.apiThrows THEN NullStr
    ELSE FirstJaxSource(d,
             SelectSeq(Ids(d), LAMBDA i :
                 /\ d[i].kind = "script"
                 /\ (i \in InclAncestors(d, element) \/ element \in Ancestors(d, i))
                 /\ ~Falsy(TextContent(d, i))),
             element)

\* EquationProcessor.getMathJaxOriginalSource
GetMathJaxOriginalSource(w, d, element) ==
    IF w.mathJax = "v3" THEN GetMathJaxV3Source(w, d, element)
    ELSE IF w.mathJax = "v2" THEN GetMathJaxV2Source(w, d, element)
    ELSE NullStr

\* if (!mathmlString.includes('xmlns=')) mathmlString.replace('<math', ...)
EnsureXmlns(s) == IF IncludesXmlns(s) THEN s ELSE AddXmlns(s)

\* mathml.outerHTML, cleanMathMLSpacing, then the namespace if none is there;
\* null if there is no math element
SerializeMath(r, d, m) ==
    IF m = Null THEN NullStr ELSE EnsureXmlns(CleanMathMLSpacing(OuterHTML(r, d, m)))

\* annotation.innerHTML || annotation.textContent
AnnotationText(r, d, annotation) ==
    IF annotation = Null THEN NullStr ELSE InnerHTML(r, d, annotation)

\* case 'latex' of extractFromKaTeX
KaTeXLatex(annotationText, latex) ==
    IF ~Falsy(annotationText) /\ Trim(annotationText) # <<>>
    THEN CleanLatex(annotationText)
    ELSE IF ~Falsy(latex) /\ Trim(latex) # <<>> THEN CleanLatex(latex)
    ELSE NullStr

\* katexMathml ? katexMathml.querySelector('math') : null
MathIn(d, katexMathml) ==
    IF katexMathml = Null THEN Null ELSE QuerySelector(d, katexMathml, {"math"})

\* EquationProcessor.extractFromKaTeX
ExtractFromKaTeX(r, d, container, format) ==
    IF format = "latex"
    THEN KaTeXLatex(AnnotationText(r, d, QuerySelector(d, container, {"annotation"})),
                    d[container].attr)
    ELSE IF format = "mathml"
    THEN SerializeMath(r, d, Or(MathIn(d, QuerySelector(d, container, {"katex-mathml"})),
                                QuerySelector(d, container, {"math"})))
    ELSE ExtractTextContent(d, Or(r.khtml[container],
                                  QuerySelector(d, container, {"katex-html"})))

\* element.closest('.MathJax') || closest('.mjx-chtml') || closest('.mjx-container')
MathJaxContainer(d, e) ==
    Or(Closest(d, e, {"MathJax"}),
       Or(Closest(d, e, {"mjx-chtml"}), Closest(d, e, {"mjx-container"})))

\* case 'mathml' of extractFromMathJax
MathJaxMathML(r, d, mathml, originalLatex) ==
    IF mathml # Null THEN SerializeMath(r, d, mathml)
    ELSE IF ~Falsy(originalLatex)
    THEN EnsureMathMLNamespace(CleanMathMLSpacing(ConvertLatexToMathML(originalLatex)))
    ELSE NullStr

\* the switch of extractFromMathJax
MathJaxContent(r, d, container, format, originalLatex) ==
    IF format = "latex"
    THEN IF ~Falsy(originalLatex) THEN CleanLatex(originalLatex)
         ELSE IF ~Falsy(d[container].attr) THEN CleanLatex(d[container].attr)
         ELSE ExtractTextContent(d, container)
    ELSE IF format = "mathml"
    THEN MathJaxMathML(r, d, QuerySelector(d, container, {"math"}), originalLatex)
    ELSE ExtractTextContent(d, container)

\* extractFromMathJax once the container is resolved
ExtractFromMathJaxContainer(r, d, w, container, format) ==
    IF container = Null THEN NullStr
    ELSE MathJaxContent(r, d, container, format,
                        GetMathJaxOriginalSource(w, d, container))

\* EquationProcessor.extractFromMathJax
ExtractFromMathJax(r, d, w, element, format) ==
    ExtractFromMathJaxContainer(r, d, w, MathJaxContainer(d, element), format)

\* EquationProcessor.extractFromMathML (SerializeMath and ExtractTextContent
\* give null when there is no math element)
ExtractFromMathML(r, d, element, format) ==
    IF format = "mathml" THEN SerializeMath(r, d, Closest(d, element, {"math"}))
    ELSE ExtractTextContent(d, Closest(d, element, {"math"}))

\* /\\[a-zA-Z]+|\$.*\$/.test(dataMath)
LooksLikeLatex(s) ==
    \/ \E i \in 1..Len(s) : s[i].k = "cmd"
    \/ \E i \in 1..Len(s) : s[i].k = "chr" /\ s[i].v = "$" /\ s[i].n > 1
    \/ \E i, j \in 1..Len(s) :
          i < j /\ s[i].k = "chr" /\ s[i].v = "$" /\ s[j].k = "chr" /\ s[j].v = "$"

\* the switch of extractFromDataAttribute
DataMathContent(dataMath, format) ==
    IF Falsy(dataMath) THEN NullStr
    ELSE IF format = "latex" THEN CleanLatex(dataMath)
    ELSE IF format = "mathml"
    THEN IF LooksLikeLatex(dataMath)
         THEN CleanMathMLSpacing(ConvertLatexToMathML(dataMath))
         ELSE IF StartsWithMath(Trim(dataMath))
         THEN CleanMathMLSpacing(EnsureMathMLNamespace(Trim(dataMath)))
         ELSE NullStr
    ELSE dataMath

\* element.getAttribute('data-math') || element.closest('[data-math]')?.getAttribute(..)
DataMathOf(d, holder) == IF holder = Null THEN NullStr ELSE d[holder].attr

\* EquationProcessor.extractFromDataAttribute
ExtractFromDataAttribute(d, element, format) ==
    DataMathContent(DataMathOf(d, Closest(d, element, {"data-math"})), format)

\* the characters mathPattern of extractGeneric matches
MathSymbols == {"+", "-", "*", "/", "=", "<", ">", "alpha", "sum"}

\* mathPattern.test(text) ? text : null
IfMath(text) ==
    IF \E i \in 1..Len(text) : text[i].k = "chr" /\ text[i].v \in MathSymbols
    THEN text ELSE NullStr

\* EquationProcessor.extractGeneric
ExtractGeneric(d, element) == IfMath(TextContent(d, element))

\* element.closest('.katex[data-katex-processed]')
RECURSIVE ClosestMarked(_, _, _, _)
ClosestMarked(d, n, ks, marked) ==
    IF n = Null THEN Null
    ELSE IF d[n].kind \in ks /\ n \in marked THEN n
    ELSE ClosestMarked(d, d[n].parent, ks, marked)

\* the outcome of a function body: a returned value or a thrown error
Return(v) == [ok |-> TRUE, code |-> "", v |-> v]
Throw(code) == [ok |-> FALSE, code |-> code, v |-> NullStr]

\* the argument of getEquationContent: an element, a text node (nodeType set,
\* no classList, no closest) or null
ElementArg(n) == [t |-> "element", id |-> n]
TextNodeArg(n) == [t |-> "text", id |-> n]
NullArg == [t |-> "null", id |-> Null]

\* getEquationContent, lines 218-226
KaTeXContainerOf(r, d, equation) ==
    IF d[equation].kind = "katex" THEN equation
    ELSE Or(ClosestMarked(d, equation, {"katex"}, r.attr),
            Closest(d, equation, {"katex"}))

\* getEquationContent, lines 228-238: the adapter of the renderer
AdapterContent(r, d, w, equation, format, katexContainer) ==
    IF katexContainer # Null THEN ExtractFromKaTeX(r, d, katexContainer, format)
    ELSE IF Closest(d, equation, MathJaxKinds) # Null
         THEN ExtractFromMathJax(r, d, w, equation, format)
    ELSE IF Closest(d, equation, {"math"}) # Null
         THEN ExtractFromMathML(r, d, equation, format)
    ELSE IF Closest(d, equation, {"data-math"}) # Null
         THEN ExtractFromDataAttribute(d, equation, format)
    ELSE ExtractGeneric(d, equation)

\* getEquationContent, lines 241-243
UnicodeFallback(d, equation, content) ==
    IF Falsy(content) THEN ExtractTextContent(d, equation) ELSE content

\* getEquationContent, lines 245-253
MathMLFallback(r, d, format, content, anyMath) ==
    IF Falsy(content) /\ format = "mathml" /\ anyMath # Null
    THEN CleanMathMLSpacing(EnsureMathMLNamespace(OuterHTML(r, d, anyMath)))
    ELSE content

\* getEquationContent, lines 217-253: the content before it is validated
FindContent(r, d, w, equation, format) ==
    MathMLFallback(r, d, format,
        UnicodeFallback(d, equation,
            AdapterContent(r, d, w, equation, format, KaTeXContainerOf(r, d, equation))),
        Or(QuerySelector(d, equation, {"math"}), Closest(d, equation, {"math"})))

\* the literal of the size check of getEquationContent
MaxContentLength == 100000

\* (mutant) content over the bound is cut to the bound and returned
CheckSize_Truncating(sanitized) ==
    IF StrLen(sanitized) > MaxContentLength
    THEN Return(<<[sanitized[1] EXCEPT !.n = MaxContentLength]>>)
    ELSE Return(sanitized)

\* getEquationContent, lines 259-262
CheckSize(sanitized) ==
    IF StrLen(sanitized) > MaxContentLength
    THEN Throw("CONTENT_TOO_LARGE") ELSE Return(sanitized)

\* getEquationContent, lines 255-266
ValidateContent(content) ==
    IF ~Falsy(content) /\ Trim(content) # <<>> THEN CheckSize(Trim(content))
    ELSE Return(NullStr)

\* the try block of getEquationContent
TryGetEquationContent(r, d, w, equation, format) ==
    IF equation.t = "null" THEN Throw("INVALID_ELEMENT")
    ELSE IF equation.t = "text" THEN Throw("TypeError")
    ELSE ValidateContent(
             FindContent(r, d, w, equation.id,
                         IF format \in validFormats THEN format ELSE defaultFormat))

\* (mutant) getEquationContent without its catch clause
Caught_Rethrown(out) ==
    [value |-> out.v, threw |-> ~out.ok, code |-> out.code, errors |-> 0]

\* the catch clause of getEquationContent: value is what the promise resolves
\* to, threw says that it rejects, errors is the increment of state.errorCount
Caught(out) ==
    IF out.ok THEN [value |-> out.v, threw |-> FALSE, code |-> "", errors |-> 0]
    ELSE [value |-> NullStr, threw |-> FALSE, code |-> out.code, errors |-> 1]

\* EquationProcessor.getEquationContent
GetEquationContent(r, d, w, equation, format) ==
    Caught(TryGetEquationContent(r, d, w, equation, format))

(***************************************************************************)
(* The documents of the extraction and copy specifications: one equation,  *)
(* or two sibling equations of one renderer, as the renderers emit them.   *)
(* An equation is written with local parents (0: the place it is put at).  *)
(***************************************************************************)
\* rendered text
Rendered(shape) ==
    CASE shape = "x" -> <<Chr("x", 1)>>
      [] shape = "pad" -> <<Chr(" ", 1), Chr("x", 1), Chr(" ", 2)>>
      [] shape = "sym" -> <<Chr("x", 1), Chr("+", 1), Chr("2", 1)>>
      [] shape = "blank" -> <<Chr(" ", 2)>>
      [] shape = "max" -> <<Chr(" ", 1), Chr("x", MaxContentLength), Chr(" ", 1)>>
      [] shape = "over" -> <<Chr("x", MaxContentLength + 1)>>
      [] OTHER -> <<>>

\* LaTeX source, and what a page puts into data-math
Source(shape) ==
    CASE shape = "alpha" -> <<Cmd("alpha"), Chr("&", 1), Chr("x", 1)>>
      [] shape = "dollar" -> <<Chr("$", 1), Chr("x", 1), Chr("$", 1)>>
      [] shape = "plain" -> <<Chr("x", 1)>>
      [] shape = "mathml" -> <<Open("math", {}), Open("mi", {}), Chr("x", 1),
                               Close("mi"), Close("math")>>
      [] shape = "empty" -> <<>>
      [] OTHER -> NullStr

\* KaTeX: .katex > (.katex-mathml > math > (mi, annotation)), .katex-html
KaTeXEquation(mml, ns, a, html) ==
    <<El(0, "katex", Source(a), <<>>)>>
    \o (IF mml = "none" THEN <<>>
        ELSE <<El(1, "katex-mathml", NullStr, <<>>),
               [El(2, "math", NullStr, <<>>) EXCEPT !.xmlns = ns],
               El(3, "mi", NullStr, <<Chr("x", 1)>>)>>
             \o (IF mml = "annotation"
                 THEN <<El(3, "annotation", NullStr, Source("alpha"))>> ELSE <<>>))
    \o (IF html = "none" THEN <<>> ELSE <<El(1, "katex-html", NullStr, Rendered(html))>>)

\* MathJax: the rendered element of class k, its assistive math child, the
\* source MathJax keeps for it (v3 MathItem) and the v2 source script, which
\* follows the rendered element as a sibling
MathJaxEquation(k, math, tex, script, a, shape) ==
    <<[El(0, k, Source(a), Rendered(shape)) EXCEPT
          !.tex = IF tex THEN Source("alpha") ELSE NullStr]>>
    \o (IF math THEN <<El(1, "math", NullStr, <<>>), El(2, "mi", NullStr, <<Chr("x", 1)>>)>>
        ELSE <<>>)
    \o (IF script THEN <<El(0, "script", NullStr, Source("alpha"))>> ELSE <<>>)

\* native MathML: math > mi, or math > (mo, mspace, mtext) with white space
MathMLEquation(ns, spaced) ==
    <<[El(0, "math", NullStr, <<>>) EXCEPT !.xmlns = ns]>>
    \o (IF spaced
        THEN <<El(1, "mo", NullStr, <<Chr(" ", 1), Chr("+", 1), Chr(" ", 1)>>),
               El(1, "mspace", NullStr, <<>>),
               El(1, "mtext", NullStr, <<Chr("zw", 1)>>)>>
        ELSE <<El(1, "mi", NullStr, <<Chr("x", 1)>>)>>)

DataMathEquation(a) == <<El(0, "data-math", Source(a), Rendered("x"))>>

GenericEquation(shape) == <<El(0, "span", NullStr, Rendered(shape))>>

\* the equation nodes put below parent p after the first `base` nodes of the
\* document, as equation number q
Place(nodes, base, p, q) ==
    [i \in 1..Len(nodes) |->
        [nodes[i] EXCEPT
           !.parent = IF @ = 0 THEN p ELSE @ + base,
           !.attr = IF @ = NullStr THEN @ ELSE Stamp(@, q),
           !.text = Stamp(@, q),
           !.tex = IF @ = NullStr THEN @ ELSE Stamp(@, q),
           !.eq = q]]

\* one equation in the body
Single(nodes) == Place(nodes, 0, Null, 1)

\* equations next to each other in the body, numbered from q
RECURSIVE RowFrom(_, _, _)
RowFrom(equations, base, q) ==
    IF equations = <<>> THEN <<>>
    ELSE Place(Head(equations), base, Null, q)
         \o RowFrom(Tail(equations), base + Len(Head(equations)), q + 1)

Row(equations) == RowFrom(equations, 0, 1)

\* two sibling equations, in the body or in one paragraph
Pair(nodes, inParagraph) ==
    IF inParagraph
    THEN <<El(Null, "span", NullStr, <<>>)>> \o Place(nodes, 1, 1, 1)
         \o Place(nodes, 1 + Len(nodes), 1, 2)
    ELSE Place(nodes, 0, Null, 1) \o Place(nodes, Len(nodes), Null, 2)

KaTeXEquations ==
    {KaTeXEquation(mml, TRUE, a, html) :
        mml \in {"none", "math", "annotation"}, a \in {"none", "alpha"},
        html \in {"none", "x", "pad", "blank", "max", "over"}}
    \cup {KaTeXEquation("math", FALSE, "none", "x")}

MathJaxEquations ==
    {MathJaxEquation("MathJax", math, FALSE, script, a, shape) :
        math \in BOOLEAN, script \in BOOLEAN, a \in {"none", "alpha"},
        shape \in {"x", "empty"}}
    \cup {MathJaxEquation("mjx-container", math, tex, FALSE, "none", "x") :
             math \in BOOLEAN, tex \in BOOLEAN}
    \cup {MathJaxEquation("mjx-chtml", FALSE, FALSE, FALSE, "none", shape) :
             shape \in {"x", "over"}}

OtherEquations ==
    {MathMLEquation(ns, spaced) : ns \in BOOLEAN, spaced \in BOOLEAN}
    \cup {DataMathEquation(a) : a \in {"alpha", "dollar", "plain", "mathml", "empty"}}
    \cup {GenericEquation(shape) : shape \in {"x", "sym", "empty", "max", "over"}}

PairedEquations ==
    {KaTeXEquation("annotation", TRUE, "none", "x"),
     MathJaxEquation("MathJax", FALSE, FALSE, TRUE, "none", "x"),
     MathJaxEquation("mjx-container", TRUE, TRUE, FALSE, "none", "x"),
     MathMLEquation(TRUE, FALSE),
     DataMathEquation("alpha"),
     GenericEquation("sym")}

ExtractDocuments ==
    {Single(e) : e \in KaTeXEquations \cup MathJaxEquations \cup OtherEquations}
    \cup {Pair(e, p) : e \in PairedEquations, p \in BOOLEAN}

(***************************************************************************)
(* Clipboard write and the copy controller (DOMProcessor.copyToClipboard,  *)
(* copyEquation, copyEquationInFormat, copySelectedEquations).  A copy is  *)
(* a flow: the handler runs to the first clipboard promise it awaits, is   *)
(* suspended in flows, and resumes when the promise settles.  The awaits   *)
(* of getEquationContent resume in the same task: no event comes between.  *)
(***************************************************************************)
\* the literal of the size check of copyToClipboard
MaxClipboardLength == 1000000
\* CONFIG.MAX_CLIPBOARD_HISTORY
MAX_CLIPBOARD_HISTORY == 20

\* a text argument that is a number
NumberStr == <<[k |-> "number", v |-> "", a |-> {}, o |-> 0, n |-> 0]>>

\* typeof text === 'string'
IsString(text) == text # NullStr /\ text # NumberStr

\* copyToClipboard, lines 1643-1653: the argument of Logger.debug reads
\* text.length, then the two checks
CheckClipboardText(text) ==
    IF text = NullStr THEN Throw("TypeError")
    ELSE IF ~IsString(text) \/ text = <<>> THEN Throw("INVALID_CLIPBOARD_CONTENT")
    ELSE IF StrLen(text) > MaxClipboardLength THEN Throw("CONTENT_TOO_LARGE")
    ELSE Return(text)

\* the error is an ExtensionError
IsExtensionError(code) ==
    code \in {"INVALID_ELEMENT", "INVALID_CLIPBOARD_CONTENT", "CONTENT_TOO_LARGE",
              "CLIPBOARD_API_UNAVAILABLE", "EXEC_COMMAND_FAILED", "CLIPBOARD_COPY_FAILED"}

\* contents.join('\n\n')
RECURSIVE Join(_)
Join(contents) ==
    IF contents = <<>> THEN <<>>
    ELSE IF Len(contents) = 1 THEN contents[1]
    ELSE contents[1] \o <<Chr("\n", 2)>> \o Join(Tail(contents))

\* DOMProcessor.addToClipboardHistory
AddToClipboardHistory(h, content, format) ==
    SubSeq(<<[content |-> content, format |-> format]>> \o h, 1,
           Min(Len(h) + 1, MAX_CLIPBOARD_HISTORY))

Range(s) == {s[i] : i \in 1..Len(s)}

Without(s, i) == SubSeq(s, 1, i - 1) \o SubSeq(s, i + 1, Len(s))

\* the loop of copySelectedEquations: what getEquationContent resolves to
\* for each selected equation, in selection order
ExtractAll(r, d, w, equations, format) ==
    [i \in 1..Len(equations) |->
        GetEquationContent(r, d, w, ElementArg(equations[i]), format)]

\* if (content) contents.push(content)
RECURSIVE ContentsOf(_)
ContentsOf(outs) ==
    IF outs = <<>> THEN <<>>
    ELSE IF Falsy(outs[1].value) THEN ContentsOf(Tail(outs))
    ELSE <<outs[1].value>> \o ContentsOf(Tail(outs))

RECURSIVE ErrorsOf(_)
ErrorsOf(outs) == IF outs = <<>> THEN 0 ELSE outs[1].errors + ErrorsOf(Tail(outs))

(***************************************************************************)
(* State of the content script and of the page                             *)
(***************************************************************************)
VARIABLES
    dom,              \* the document
    inserted,         \* number of elements appended since the script started
    mathJax,          \* window.MathJax as the script sees it: "none", "v2", "v3"
    apiThrows,        \* a call into the MathJax API throws
    errorCount,       \* state.errorCount
    libCalls,         \* number of calls of the extraction made so far
    call,             \* the last call of the extraction and its outcome
    clipboardApi,     \* navigator.clipboard: "none", "text" (writeText only), "full"
    currentFormat,    \* state.currentFormat
    isShiftPressed,   \* state.isShiftPressed
    selected,         \* state.selectedEquations, in insertion order
    classes,          \* the feedback and selection classes of each element
    feedback,         \* pending feedback timers of each element, per class
    flows,            \* copy operations suspended at a clipboard promise
    writes,           \* the texts the clipboard has accepted, oldest first
    history,          \* state.clipboardHistory
    lastFlow,         \* the copy operation that ended last and its outcome
    copies,           \* number of copy operations started
    attr, pset, mce, handlers, khtml, timers,     \* the registry (see above)
    calls, wire, containers, nested, late,        \* observations (see above)
    initPc,           \* position of initialize(): "checking", "loading", "disabled",
                      \* "settle", "waiting", "ready"
    isInitialized,    \* state.isInitialized
    rescans,          \* pending delayed re-scan timers (3000, 6000)
    observing,        \* state.mutationObserver is connected
    throttleTimeout,  \* state.throttleTimeout: a timer handle or Null
    throttleTimers,   \* handles of the throttle timers that are still pending
    suspended,        \* processMutations calls suspended at an await
    cleaned,          \* cleanup() has run
    forceCount,       \* forceDetection commands handled
    cleanStarted,     \* a full scan has started since the last DOM change
    cleanDone,        \* ... and every such scan has completed with all its batches
    lateRan,          \* a scan has started after such a completed scan
    order,            \* the containers in the order processBatch has registered them
    faulty,           \* elements whose handling in processBatch throws
    runtimeValid,     \* chrome.runtime.id is set: the extension context is valid
    settings,         \* state.settings.format
    detached,         \* elements the page has removed from the document
    sent,             \* the last selectionUpdated message sent: <<count>>, or <<>>
    mathCopyHistory,  \* the background store: mathCopyHistory of chrome.storage.local
    adding,           \* addToHistory calls between their storage get and set
    historyIdCounter, \* historyIdCounter of the background script
    applied,          \* a string and what the applications of a conversion made of it
    multiSelection,   \* Boolean(state.settings.multiSelection)
    notified,         \* the formulas of the equationCopied messages sent, oldest first
    initializationAttempts,  \* state.initializationAttempts
    mathCopyStats,    \* the background store: mathCopyStats of chrome.storage.local
    updating          \* updateStats calls between their storage get and set

regVars == <<attr, pset, mce, handlers, khtml, timers, calls, wire, containers, nested, late,
             order>>
schedVars == <<initPc, isInitialized, rescans, observing, throttleTimeout,
               throttleTimers, suspended, cleaned>>
scanVars == <<forceCount, cleanStarted, cleanDone, lateRan>>
userVars == <<apiThrows, errorCount, libCalls, call>>
copyVars == <<clipboardApi, currentFormat, isShiftPressed, selected, classes, feedback,
              flows, writes, history, lastFlow, copies, sent, notified>>
bgVars == <<mathCopyHistory, adding, historyIdCounter, mathCopyStats, updating>>
envVars == <<mathJax, faulty, runtimeValid, settings, detached, bgVars, applied,
            multiSelection, initializationAttempts>>
vars == <<dom, inserted, envVars, regVars, schedVars, scanVars, userVars, copyVars>>

\* typeof window.MathJax !== 'undefined'
hasMathJax == mathJax # "none"

Reg == [attr |-> attr, pset |-> pset, mce |-> mce, handlers |-> handlers,
        khtml |-> khtml, timers |-> timers, calls |-> calls, wire |-> wire,
        containers |-> containers, nested |-> nested, late |-> late,
        order |-> order, faulty |-> faulty, thrown |-> FALSE, cls |-> classes]

SetReg(r) ==
    /\ attr' = r.attr /\ pset' = r.pset /\ mce' = r.mce /\ handlers' = r.handlers
    /\ khtml' = r.khtml /\ timers' = r.timers /\ calls' = r.calls /\ wire' = r.wire
    /\ containers' = r.containers /\ nested' = r.nested /\ late' = r.late
    /\ order' = r.order

World == [mathJax |-> mathJax, apiThrows |-> apiThrows]

NoCall == [op |-> "none", equation |-> NullArg, format |-> "", value |-> NullStr,
           threw |-> FALSE, code |-> "", errors |-> 0]

NoFlow == [id |-> 0, kind |-> "none", equations |-> <<>>, format |-> "",
           contents |-> <<>>, text |-> NullStr, ok |-> FALSE, code |-> "",
           attempts |-> {}]

\* no selectionUpdated message has been sent
NoMessage == <<>>

\* the background script has stored nothing and handles no message
\* onInstall, lines 2073-2077: the statistics of a fresh installation
InstallStats ==
    [totalCopies |-> 0,
     formatUsage |-> [f \in {"mathml", "latex", "unicode", "asciimath"} |-> 0]]

\* no updateStats call has been made
QuietStats == mathCopyStats = InstallStats /\ updating = <<>>

QuietBackground ==
    /\ mathCopyHistory = <<>> /\ adding = <<>> /\ historyIdCounter = 0
    /\ QuietStats

\* the page of the other specifications: no element throws, the extension
\* context is valid, the stored format is the default, nothing is removed
PlainPage ==
    /\ faulty = {} /\ runtimeValid = TRUE /\ settings = defaultFormat /\ detached = {}
    /\ QuietBackground /\ applied = <<>> /\ multiSelection = TRUE

\* no copy has been made
IdleCopy ==
    /\ sent = NoMessage /\ notified = <<>>
    /\ isShiftPressed = FALSE
    /\ selected = <<>>
    /\ classes = [n \in NodeIds |-> {}]
    /\ feedback = [n \in NodeIds |->
                     [c \in {"math-copy-success", "math-copy-error"} |-> 0]]
    /\ flows = <<>>
    /\ writes = <<>>
    /\ history = <<>>
    /\ lastFlow = NoFlow
    /\ copies = 0

\* the full scans started since the last DOM change are complete when none of
\* their batch continuations is pending
CleanComplete(ts) == \A i \in 1..Len(ts) : ~ts[i].clean

Init ==
    /\ \E k \in PadKinds : dom = PadDocument(k, PadCount)
    /\ inserted = 0
    /\ mathJax \in (IF \E i \in 1..Len(dom) : dom[i].kind \in MathJaxKinds
                    THEN {"none", "v3"} ELSE {"none"})
    /\ apiThrows = FALSE /\ errorCount = 0 /\ libCalls = 0 /\ call = NoCall
    /\ clipboardApi = "full" /\ currentFormat = defaultFormat /\ IdleCopy /\ PlainPage
    /\ attr = {} /\ pset = {} /\ mce = {} /\ handlers = {}
    /\ khtml = [n \in NodeIds |-> Null]
    /\ timers = <<>>
    /\ calls = [n \in NodeIds |-> 0]
    /\ wire = [n \in NodeIds |-> 0]
    /\ containers = {} /\ nested = {} /\ late = {} /\ order = <<>>
    /\ initPc = "settle" /\ initializationAttempts = 1
    /\ isInitialized = FALSE
    /\ rescans = {}
    /\ observing = FALSE
    /\ throttleTimeout = Null
    /\ throttleTimers = {}
    /\ suspended = <<>>
    /\ cleaned = FALSE
    /\ forceCount = 0
    /\ cleanStarted = FALSE /\ cleanDone = FALSE /\ lateRan = FALSE

\* a full scan (processExistingEquations) and its bookkeeping
FullScan ==
    \E r \in {ProcessExistingEquations(Reg, dom, TRUE, cleanDone)} :
    /\ SetReg(r)
    /\ cleanStarted' = TRUE
    /\ cleanDone' = (cleanDone \/ CleanComplete(r.timers))
    /\ lateRan' = (lateRan \/ cleanDone)

\* the page (or a renderer) appends an element; the MutationObserver callback
\* (setupMutationObserver) runs before the next task
Insert ==
    /\ inserted < MaxNodes
    /\ inserted' = inserted + 1
    /\ \E k \in RegistryKinds, p \in {Null} \cup InclAncestors(dom, Len(dom)) :
          dom' = Append(dom, Node(p, k))
    /\ IF observing
       THEN /\ throttleTimeout' = Len(dom) + 1
            /\ throttleTimers' = (throttleTimers \ {throttleTimeout}) \cup {Len(dom) + 1}
       ELSE UNCHANGED <<throttleTimeout, throttleTimers>>
    /\ timers' = [i \in 1..Len(timers) |->
                     [timers[i] EXCEPT !.late = FALSE, !.clean = FALSE]]
    /\ suspended' = [i \in 1..Len(suspended) |-> [suspended[i] EXCEPT !.late = FALSE]]
    /\ cleanStarted' = FALSE /\ cleanDone' = FALSE
    /\ UNCHANGED <<envVars, userVars, copyVars, attr, pset, mce, handlers, khtml, calls, wire,
                   containers, nested, late, order, initPc, isInitialized, rescans,
                   observing, cleaned, forceCount, lateRan>>

\* state.maxInitAttempts
maxInitAttempts == 3

\* DOMProcessor.initialize, lines 824-838: where the call leaves the script
\* ("aborted": nothing is scheduled) and state.initializationAttempts
Initialize(attempts) ==
    IF attempts >= maxInitAttempts
    THEN [pc |-> "aborted", attempts |-> attempts]
    ELSE [pc |-> "settle", attempts |-> attempts + 1]

\* the INITIAL_DELAY timer of DOMProcessor.initialize fires:
\* waitForMathJaxAndInitialize runs up to its first await
SettleDelay ==
    /\ initPc = "settle"
    /\ initPc' = "waiting"
    /\ UNCHANGED <<dom, inserted, envVars, userVars, copyVars, regVars, isInitialized, rescans, observing,
                   throttleTimeout, throttleTimers, suspended, cleaned, scanVars>>

\* waitForMathJaxAndInitialize resumes after the readiness wait: first scan,
\* observer, isInitialized, the two delayed re-scans
FirstScan ==
    /\ initPc = "waiting"
    /\ initPc' = "ready"
    /\ FullScan
    /\ observing' = TRUE
    /\ isInitialized' = TRUE
    /\ rescans' = {3000, 6000}
    /\ UNCHANGED <<dom, inserted, envVars, userVars, copyVars, throttleTimeout, throttleTimers, suspended,
                   cleaned, forceCount>>

\* one of the delayed re-scan timers fires
Rescan ==
    /\ \E t \in rescans :
          /\ \A u \in rescans : t <= u
          /\ rescans' = rescans \ {t}
    /\ IF isInitialized THEN FullScan
       ELSE UNCHANGED <<regVars, cleanStarted, cleanDone, lateRan>>
    /\ UNCHANGED <<dom, inserted, envVars, userVars, copyVars, initPc, isInitialized, observing,
                   throttleTimeout, throttleTimers, suspended, cleaned, forceCount>>

\* the forceDetection command of the message listener
ForceDetection ==
    /\ forceCount < MaxForce
    /\ forceCount' = forceCount + 1
    /\ FullScan
    /\ UNCHANGED <<dom, inserted, envVars, userVars, copyVars, schedVars>>

\* the oldest pending batch continuation runs
RunBatch ==
    /\ timers # <<>>
    /\ \E t \in {Head(timers)} :
       \E r \in {ProcessBatch([Reg EXCEPT !.timers = Tail(timers)], dom,
                              t.elements, t.start, t.clean, t.late)} :
       /\ SetReg(r)
       /\ cleanDone' = (cleanDone \/ (cleanStarted /\ CleanComplete(r.timers)))
    /\ UNCHANGED <<dom, inserted, envVars, userVars, copyVars, schedVars, forceCount, cleanStarted, lateRan>>

\* the list otherNewEquations of processMutations
RECURSIVE OtherNewEquations(_, _, _)
OtherNewEquations(r, d, i) ==
    IF i > Len(OtherSelectors) THEN <<>>
    ELSE SelectSeq(QueryUnprocessed(d, OtherSelectors[i], r.attr),
                   LAMBDA e : e \notin r.pset)
         \o OtherNewEquations(r, d, i + 1)

HasMathJaxEquations(d, list) ==
    \E i \in 1..Len(list) : Closest(d, list[i], MathJaxKinds) # Null

\* a throttle timer of setupMutationObserver fires: processMutations runs to
\* its end, or to its first await when it waits for MathJax
ThrottleFire ==
    \E h \in throttleTimers :
       \E r1 \in {ProcessBatch(Reg, dom, QueryUnprocessed(dom, {"katex-html"}, attr),
                                0, FALSE, cleanDone)} :
       \E others \in {OtherNewEquations(r1, dom, 1)} :
       /\ throttleTimers' = throttleTimers \ {h}
       /\ IF others # <<>> /\ hasMathJax /\ HasMathJaxEquations(dom, others)
          THEN /\ SetReg(r1)
               /\ suspended' = Append(suspended, [elements |-> others, late |-> cleanDone])
               /\ UNCHANGED throttleTimeout
          ELSE /\ \E r2 \in {ProcessBatch(r1, dom, others, 0, FALSE, cleanDone)} : SetReg(r2)
               /\ throttleTimeout' = Null
               /\ UNCHANGED suspended
       /\ UNCHANGED <<dom, inserted, envVars, userVars, copyVars, initPc, isInitialized, rescans,
                      observing, cleaned, scanVars>>

\* a suspended processMutations resumes after MathJax has rendered
MutationResume ==
    \E i \in 1..Len(suspended) :
       /\ \E r \in {ProcessBatch(Reg, dom, suspended[i].elements, 0, FALSE, suspended[i].late)} :
             SetReg(r)
       /\ suspended' = SubSeq(suspended, 1, i - 1) \o SubSeq(suspended, i + 1, Len(suspended))
       /\ throttleTimeout' = Null
       /\ UNCHANGED <<dom, inserted, envVars, userVars, copyVars, initPc, isInitialized, rescans,
                      observing, throttleTimers, cleaned, scanVars>>

\* cleanup(), the beforeunload listener
Cleanup ==
    /\ ~cleaned
    /\ cleaned' = TRUE
    /\ observing' = FALSE
    /\ throttleTimers' = throttleTimers \ {throttleTimeout}
    /\ throttleTimeout' = Null
    /\ handlers' = handlers \ (mce \ detached)
    /\ pset' = {}
    /\ isInitialized' = FALSE
    /\ selected' = <<>>
    /\ errorCount' = 0
    /\ UNCHANGED <<dom, inserted, envVars, apiThrows, libCalls, call, clipboardApi,
                   currentFormat, isShiftPressed, classes, feedback, flows, writes,
                   history, lastFlow, copies, sent, notified, attr, mce, khtml, timers, calls, wire,
                   containers, nested, late, order, initPc, rescans, suspended, scanVars>>

Next ==
    \/ Insert
    \/ SettleDelay
    \/ FirstScan
    \/ Rescan
    \/ ForceDetection
    \/ RunBatch
    \/ ThrottleFire
    \/ MutationResume
    \/ Cleanup

Spec == Init /\ [][Next]_vars

(***************************************************************************)
(* Calls of the extraction on the documents above                          *)
(***************************************************************************)
\* the state when the content script starts on one of the documents
InitFrom(documents, pc) ==
    /\ dom \in documents
    /\ inserted = 0
    /\ mathJax \in (IF \E i \in 1..Len(dom) : dom[i].kind \in MathJaxKinds
                    THEN {"none", "v2", "v3"} ELSE {"none"})
    /\ apiThrows \in (IF mathJax = "none" THEN {FALSE} ELSE BOOLEAN)
    /\ attr = {} /\ pset = {} /\ mce = {} /\ handlers = {}
    /\ khtml = [n \in NodeIds |-> Null]
    /\ timers = <<>>
    /\ calls = [n \in NodeIds |-> 0]
    /\ wire = [n \in NodeIds |-> 0]
    /\ containers = {} /\ nested = {} /\ late = {} /\ order = <<>>
    /\ initPc = pc
    /\ initializationAttempts = (IF pc \in {"checking", "loading", "disabled"} THEN 0 ELSE 1)
    /\ isInitialized = FALSE
    /\ rescans = {}
    /\ observing = FALSE
    /\ throttleTimeout = Null
    /\ throttleTimers = {}
    /\ suspended = <<>>
    /\ cleaned = FALSE
    /\ forceCount = 0
    /\ cleanStarted = FALSE /\ cleanDone = FALSE /\ lateRan = FALSE
    /\ errorCount = 0
    /\ libCalls = 0
    /\ call = NoCall

\* the state when DOMProcessor.initialize has set its INITIAL_DELAY timer
InitOn(documents) == InitFrom(documents, "settle")

InitExtract ==
    /\ InitOn(ExtractDocuments) /\ PlainPage
    /\ clipboardApi = "full" /\ currentFormat = defaultFormat /\ IdleCopy

\* what a caller can pass as the equation: null, a text node, any element
Arguments(d) == {NullArg, TextNodeArg(1)} \cup {ElementArg(i) : i \in 1..Len(d)}

\* the call and its outcome are recorded, state.errorCount is advanced
RecordCall(equation, format, out) ==
    /\ call' = [op |-> "getEquationContent", equation |-> equation,
                format |-> format, value |-> out.value, threw |-> out.threw,
                code |-> out.code, errors |-> out.errors]
    /\ errorCount' = errorCount + out.errors

\* a call of EquationProcessor.getEquationContent once the document is scanned
GetContent ==
    /\ initPc = "ready"
    /\ libCalls < MaxCalls
    /\ libCalls + copies < MaxCopies
    /\ libCalls' = libCalls + 1
    /\ \E equation \in Arguments(dom), format \in validFormats \cup {"html"} :
          RecordCall(equation, format,
                     GetEquationContent(Reg, dom, World, equation, format))
    /\ UNCHANGED <<dom, inserted, envVars, apiThrows, regVars, schedVars, scanVars, copyVars>>

NextExtract ==
    \/ SettleDelay
    \/ FirstScan
    \/ GetContent

SpecExtract == InitExtract /\ [][NextExtract]_vars

(***************************************************************************)
(* The copy operations on a scanned document                                *)
(***************************************************************************)
\* the formats that are chosen in the settings or for a direct call
SettingsFormats == {"mathml", "latex"}

\* the formats the context menu of an equation offers
MenuFormats == {"mathml", "latex", "unicode", "asciimath"}

\* classList.add / classList.remove on one element
AddClass(cls, n, c) == [cls EXCEPT ![n] = @ \cup {c}]
RemoveClass(cls, n, c) == [cls EXCEPT ![n] = @ \ {c}]

\* a copy operation: what it copies, in which format, the contents it has
\* extracted, the text it hands to copyToClipboard, the clipboard promise it
\* awaits and the mechanisms it has invoked
Flow(id, kind, equations, format, contents, text) ==
    [id |-> id, kind |-> kind, equations |-> equations, format |-> format,
     contents |-> contents, text |-> text, step |-> "", attempts |-> {}]

Awaiting(f, step) == [f EXCEPT !.step = step, !.attempts = @ \cup {step}]

\* the classes once the operation has ended: copyEquation and
\* copyEquationInFormat replace the copying state by success or error;
\* copySelectedEquations marks the equations it copied and clearSelection
\* unmarks the selection
ClassesAfter(f, cls, sel, ok) ==
    IF f.kind = "single"
    THEN AddClass(RemoveClass(cls, f.equations[1], "math-copy-copying"),
                  f.equations[1],
                  IF ok THEN "math-copy-success" ELSE "math-copy-error")
    ELSE IF f.kind = "multi" /\ ok
    THEN [n \in NodeIds |->
            ((cls[n] \cup (IF n \in Range(f.equations) THEN {"math-copy-success"} ELSE {}))
             \ (IF n \in Range(sel) THEN {"math-copy-selected"} ELSE {}))]
    ELSE cls

\* the setTimeout calls that take the feedback back
FeedbackAfter(f, fb, ok) ==
    IF f.kind = "single"
    THEN [fb EXCEPT ![f.equations[1]][IF ok THEN "math-copy-success" ELSE "math-copy-error"] = @ + 1]
    ELSE IF f.kind = "multi" /\ ok
    THEN [n \in NodeIds |->
            IF n \in Range(f.equations)
            THEN [fb[n] EXCEPT !["math-copy-success"] = @ + 1] ELSE fb[n]]
    ELSE fb

\* (mutant) notifySelectionChange sends nothing
NotifySelectionChange_Silent(count) == sent

\* DOMProcessor.notifySelectionChange: the value of sent after notifyBackground
\* has sent selectionUpdated with the count, or has skipped the message
\* because the extension context is invalidated
NotifySelectionChange(count) == IF runtimeValid THEN <<count>> ELSE sent

\* (mutant) the selection is kept after a multi-copy
SelectionAfter_Kept(f, sel, ok) == sel

\* clearSelection at the end of a multi-copy that succeeded
SelectionAfter(f, sel, ok) == IF f.kind = "multi" /\ ok THEN <<>> ELSE sel

\* (mutant) the copy is recorded before the clipboard write is awaited
HistoryAfter_Unawaited(f, h, ok) ==
    IF f.kind = "single" THEN AddToClipboardHistory(h, f.text, f.format)
    ELSE IF f.kind = "multi" THEN AddToClipboardHistory(h, f.text, currentFormat)
    ELSE h

\* addToClipboardHistory in copyEquation, copyEquationInFormat and
\* copySelectedEquations: reached when copyToClipboard has returned
HistoryAfter(f, h, ok) ==
    IF ok /\ f.kind = "single" THEN AddToClipboardHistory(h, f.text, f.format)
    ELSE IF ok /\ f.kind = "multi" THEN AddToClipboardHistory(h, f.text, currentFormat)
    ELSE h

\* notifyBackground('equationCopied', ...) in the same three functions, which
\* skips the message when the extension context is invalidated
EquationCopied(f, sentSoFar, ok) ==
    IF ok /\ f.kind \in {"single", "multi"} /\ runtimeValid
    THEN Append(sentSoFar, f.text) ELSE sentSoFar

\* the operation ends: copyToClipboard has returned (ok) or an error was
\* caught.  rest: the operations that stay suspended; cls: the classes
\* before the end
End(f, cls, rest, ok, code) ==
    /\ flows' = rest
    /\ writes' = IF ok THEN Append(writes, f.text) ELSE writes
    /\ history' = HistoryAfter(f, history, ok)
    /\ notified' = EquationCopied(f, notified, ok)
    /\ classes' = ClassesAfter(f, cls, selected, ok)
    /\ feedback' = FeedbackAfter(f, feedback, ok)
    /\ selected' = SelectionAfter(f, selected, ok)
    /\ sent' = IF f.kind = "multi" /\ ok THEN NotifySelectionChange(0) ELSE sent
    /\ lastFlow' = [id |-> f.id, kind |-> f.kind, equations |-> f.equations,
                    format |-> f.format, contents |-> f.contents, text |-> f.text,
                    ok |-> ok, code |-> code, attempts |-> f.attempts]

\* the operation is suspended at a clipboard promise
Suspend(f, cls, rest) ==
    /\ flows' = Append(rest, f)
    /\ classes' = cls
    /\ UNCHANGED <<writes, history, feedback, selected, lastFlow, sent, notified>>

\* copyToClipboard, lines 1683-1722: document.execCommand('copy') copies or
\* does not; a failure becomes CLIPBOARD_COPY_FAILED
ExecCommand(f, cls, rest) ==
    \E success \in BOOLEAN :
        End(Awaiting(f, "execCommand"), cls, rest, success,
            IF success THEN "" ELSE "CLIPBOARD_COPY_FAILED")

\* (mutant) the dual-typed write is skipped
FirstMechanism_TextOnly(f, cls, rest) ==
    IF clipboardApi # "none"
    THEN Suspend(Awaiting(f, "writeText"), cls, rest)
    ELSE ExecCommand(f, cls, rest)

\* copyToClipboard, lines 1655-1682: the first mechanism
FirstMechanism(f, cls, rest) ==
    IF f.format = "mathml" /\ clipboardApi = "full"
    THEN Suspend(Awaiting(f, "write"), cls, rest)
    ELSE IF clipboardApi # "none"
    THEN Suspend(Awaiting(f, "writeText"), cls, rest)
    ELSE ExecCommand(f, cls, rest)

\* copyToClipboard up to its first await
CopyToClipboard(f, cls, rest) ==
    IF CheckClipboardText(f.text).ok THEN FirstMechanism(f, cls, rest)
    ELSE End(f, cls, rest, FALSE, CheckClipboardText(f.text).code)

\* the registry as the extraction sees it while cls are the classes
RegWith(cls) == [Reg EXCEPT !.cls = cls]

\* copyEquation / copyEquationInFormat after the extraction has resolved to out
CopyContent(equation, format, cls, out) ==
    /\ errorCount' = errorCount + out.errors
    /\ copies' = copies + 1
    /\ IF Falsy(out.value)
       THEN End(Flow(copies + 1, "single", <<equation>>, format, <<>>, out.value),
                cls, flows, FALSE, "Error")
       ELSE CopyToClipboard(Flow(copies + 1, "single", <<equation>>, format,
                                 <<out.value>>, out.value), cls, flows)

\* DOMProcessor.copyEquation / copyEquationInFormat: the element is put in
\* the copying state, then its content is extracted in the format
CopyEquationInFormat(equation, format) ==
    CopyContent(equation, format, AddClass(classes, equation, "math-copy-copying"),
                GetEquationContent(RegWith(AddClass(classes, equation, "math-copy-copying")),
                                   dom, World, ElementArg(equation), format))

\* DOMProcessor.toggleEquationSelection
ToggleEquationSelection(equation) ==
    /\ IF equation \in Range(selected)
       THEN /\ selected' = SelectSeq(selected, LAMBDA n : n # equation)
            /\ classes' = RemoveClass(classes, equation, "math-copy-selected")
            /\ sent' = NotifySelectionChange(Len(selected) - 1)
       ELSE /\ selected' = Append(selected, equation)
            /\ classes' = AddClass(classes, equation, "math-copy-selected")
            /\ sent' = NotifySelectionChange(Len(selected) + 1)
    /\ UNCHANGED <<errorCount, copies, flows, writes, history, feedback, lastFlow,
                   notified>>

pageVars == <<dom, inserted, envVars, apiThrows, regVars, schedVars, scanVars,
              libCalls, call, clipboardApi>>

\* the click listener of an equation: with Shift held the equation is
\* toggled in the selection; otherwise it is copied, in the format a context
\* menu command of the browser has set for the click, or in the current one
Click ==
    /\ initPc = "ready"
    /\ \E equation \in handlers \ detached :
          IF isShiftPressed
          THEN ToggleEquationSelection(equation)
          ELSE /\ libCalls + copies < MaxCopies
               /\ \E override \in {""} \cup SettingsFormats :
                     CopyEquationInFormat(equation,
                         IF override = "" THEN currentFormat ELSE override)
    /\ UNCHANGED <<pageVars, currentFormat, isShiftPressed>>

FeedbackClasses == {"math-copy-copying", "math-copy-success", "math-copy-error"}

\* how many copies are made on one container when they overlap
MaxOverlap == 2

\* a click without Shift on a container that is still in a feedback state:
\* the copy before it is suspended or its feedback timer has not fired
ClickAgain ==
    /\ initPc = "ready"
    /\ ~isShiftPressed
    /\ copies < MaxOverlap
    /\ \E equation \in handlers \ detached :
          /\ classes[equation] \cap FeedbackClasses # {}
          /\ CopyEquationInFormat(equation, currentFormat)
    /\ UNCHANGED <<pageVars, currentFormat, isShiftPressed>>

\* (mutant) the context-menu copy makes its format the current one
FormatAfterCopy_Switched(format) ==
    IF format \in validFormats THEN format ELSE currentFormat

\* state.currentFormat after DOMProcessor.copyEquationInFormat, which does
\* not assign it
FormatAfterCopy(format) == currentFormat

\* an item of the context menu of an equation is chosen
MenuCopy ==
    /\ initPc = "ready"
    /\ libCalls + copies < MaxCopies
    /\ \E equation \in handlers \ detached, format \in MenuFormats :
          /\ CopyEquationInFormat(equation, format)
          /\ currentFormat' = FormatAfterCopy(format)
    /\ UNCHANGED <<pageVars, isShiftPressed>>

\* copySelectedEquations after the extractions have resolved to outs
CopyContents(equations, outs) ==
    /\ errorCount' = errorCount + ErrorsOf(outs)
    /\ copies' = copies + 1
    /\ IF ContentsOf(outs) = <<>>
       THEN End(Flow(copies + 1, "multi", equations, currentFormat, <<>>, NullStr),
                classes, flows, FALSE, "")
       ELSE CopyToClipboard(Flow(copies + 1, "multi", equations, currentFormat,
                                 ContentsOf(outs), Join(ContentsOf(outs))),
                            classes, flows)

\* DOMProcessor.copySelectedEquations: Ctrl/Cmd+C or the copySelected command
CopySelectedEquations ==
    /\ initPc = "ready"
    /\ libCalls + copies < MaxCopies
    /\ selected # <<>>
    /\ CopyContents(selected, ExtractAll(RegWith(classes), dom, World, selected, currentFormat))
    /\ UNCHANGED <<pageVars, currentFormat, isShiftPressed>>

\* a clipboard promise settles and the operation that awaits it resumes:
\* a rejected clipboard.write is followed by writeText, a rejected writeText
\* by document.execCommand
ClipboardSettle ==
    /\ \E i \in 1..Len(flows), resolved \in BOOLEAN :
          IF resolved
          THEN End(flows[i], classes, Without(flows, i), TRUE, "")
          ELSE IF flows[i].step = "write"
          THEN Suspend(Awaiting(flows[i], "writeText"), classes, Without(flows, i))
          ELSE ExecCommand(flows[i], classes, Without(flows, i))
    /\ UNCHANGED <<pageVars, errorCount, currentFormat, isShiftPressed, copies>>

\* a feedback timer of an equation fires
FeedbackTimeout ==
    /\ \E n \in NodeIds, c \in {"math-copy-success", "math-copy-error"} :
          /\ feedback[n][c] > 0
          /\ feedback' = [feedback EXCEPT ![n][c] = @ - 1]
          /\ classes' = RemoveClass(classes, n, c)
    /\ UNCHANGED <<pageVars, errorCount, currentFormat, isShiftPressed, copies,
                   flows, writes, history, selected, lastFlow, sent, notified>>

\* the mouseleave listener of an equation
MouseLeave ==
    /\ initPc = "ready"
    /\ \E equation \in handlers \ detached :
          /\ classes[equation] \cap {"math-copy-success", "math-copy-error",
                                     "math-copy-copying"} # {}
          /\ classes' = [classes EXCEPT ![equation] =
                            @ \ {"math-copy-success", "math-copy-error",
                                 "math-copy-copying"}]
    /\ UNCHANGED <<pageVars, errorCount, currentFormat, isShiftPressed, copies,
                   flows, writes, history, feedback, selected, lastFlow, sent, notified>>

\* DOMProcessor.clearSelection: Escape (the keydown listener is installed with
\* the first scan) or the clearSelection command (which arrives while the
\* extension context is valid)
ClearSelection ==
    /\ initPc = "ready" \/ runtimeValid
    /\ classes' = [n \in NodeIds |->
                     IF n \in Range(selected) THEN classes[n] \ {"math-copy-selected"}
                     ELSE classes[n]]
    /\ selected' = <<>>
    /\ sent' = NotifySelectionChange(0)
    /\ UNCHANGED <<pageVars, errorCount, currentFormat, isShiftPressed, copies,
                   flows, writes, history, feedback, lastFlow, notified>>

\* keydown and keyup of Shift: the listeners of setupGlobalEventListeners,
\* installed with the first scan
ShiftKey ==
    /\ initPc = "ready"
    /\ isShiftPressed' = ~isShiftPressed
    /\ UNCHANGED <<pageVars, errorCount, currentFormat, copies, flows,
                   writes, history, feedback, classes, selected, lastFlow, sent, notified>>

\* the formats a formatChanged message carries
ChangedFormats == SettingsFormats \cup {"html"}

\* state.currentFormat after the formatChanged command
FormatChangedTo(format) == IF format \in validFormats THEN format ELSE currentFormat

\* the success field of the answer to the formatChanged command
FormatChangedSuccess(format) == format \in validFormats

\* the formatChanged command
FormatChanged ==
    /\ \E format \in ChangedFormats \ {currentFormat} :
          currentFormat' = FormatChangedTo(format)
    /\ UNCHANGED <<pageVars, errorCount, isShiftPressed, copies, flows,
                   writes, history, feedback, classes, selected, lastFlow, sent, notified>>

\* the texts a caller can pass to copyToClipboard
Texts == {NullStr, NumberStr, <<>>, <<Chr("x", 1)>>, <<Chr("x", MaxClipboardLength)>>,
          <<Chr("x", MaxClipboardLength + 1)>>}

\* a call of DOMProcessor.copyToClipboard
ClipboardCall ==
    /\ initPc = "ready"
    /\ libCalls + copies < MaxCopies
    /\ copies' = copies + 1
    /\ \E text \in Texts, format \in SettingsFormats :
          CopyToClipboard(Flow(copies + 1, "direct", <<>>, format, <<>>, text),
                          classes, flows)
    /\ UNCHANGED <<pageVars, errorCount, currentFormat, isShiftPressed>>

\* documents to copy from: equations of one kind next to each other, an
\* equation without content next to one with content
CopyDocuments ==
    {Row(<<DataMathEquation("alpha"), DataMathEquation("dollar")>>),
     Row(<<MathMLEquation(TRUE, FALSE), KaTeXEquation("annotation", TRUE, "none", "x")>>),
     Row(<<GenericEquation("sym"), KaTeXEquation("none", TRUE, "none", "blank")>>),
     Row(<<MathJaxEquation("mjx-container", FALSE, TRUE, FALSE, "none", "over")>>)}

InitCopy ==
    /\ InitOn(CopyDocuments) /\ PlainPage
    /\ clipboardApi \in {"none", "text", "full"}
    /\ currentFormat = defaultFormat
    /\ IdleCopy

NextCopy ==
    \/ SettleDelay
    \/ FirstScan
    \/ GetContent
    \/ ClipboardCall
    \/ Click
    \/ MenuCopy
    \/ CopySelectedEquations
    \/ ClipboardSettle
    \/ FeedbackTimeout
    \/ MouseLeave
    \/ ClearSelection
    \/ ShiftKey
    \/ FormatChanged

SpecCopy == InitCopy /\ [][NextCopy]_vars

(***************************************************************************)
(* Properties of the registry and the scheduler                            *)
(***************************************************************************)

\* C1 (idempotent tagging): a scan started after a scan has completed with all
\* its batch continuations, with no DOM change in between, hands no element to
\* setupEquation: it tags nothing and wires nothing.
C1_IdempotentTagging == late = {}

\* a repeated scan has run on a document whose first scan needed a continuation
C1_Witness == lateRan /\ Cardinality(containers) > BATCH_SIZE

\* C2 (exactly-once processing): under every interleaving of the scans and the
\* batch continuations, processBatch hands an element to setupEquation at most
\* once and setupEquationListeners attaches handlers to it at most once.
C2_ExactlyOnce == \A n \in NodeIds : calls[n] <= 1 /\ wire[n] <= 1

\* an element is wired and a forced scan, both re-scans and a DOM change followed
C2_Witness ==
    /\ \E n \in NodeIds : wire[n] = 1
    /\ forceCount > 0 /\ rescans = {} /\ initPc = "ready" /\ inserted > 0

\* C3 (one container per visual equation): no element is tagged as a container
\* while one of its ancestors is already a tagged container; in a KaTeX
\* equation only the .katex element is tagged.
C3_OneContainerPerEquation == nested = {}

(***************************************************************************)
(* Properties of the extraction                                            *)
(***************************************************************************)
\* the last call was getEquationContent on an element
Extracted == call.op = "getEquationContent" /\ call.equation.t = "element"

\* the format the call works with
EffectiveFormat == IF call.format \in validFormats THEN call.format ELSE defaultFormat

\* every lexeme of s that comes from the document comes from equation q
OwnContent(s, q) == \A i \in 1..Len(s) : s[i].o \in {0, q}

\* C4 (no over-grouping): no tagged container encloses nodes of another
\* equation, every equation a scan can match has a tagged container once the
\* scan has run, and the content extracted from a tagged container comes from
\* the equation of that container only.
C4_NoOverGrouping ==
    /\ \A c \in containers : \A i \in 1..Len(dom) :
          c \in InclAncestors(dom, i) => dom[i].eq = dom[c].eq
    /\ initPc = "ready" =>
          \A i \in 1..Len(dom) :
             dom[i].kind \in {"katex-html", "math", "data-math"} \cup MathJaxKinds
                => \E c \in containers : dom[c].eq = dom[i].eq
    /\ (Extracted /\ call.equation.id \in mce /\ call.value # NullStr)
          => OwnContent(call.value, dom[call.equation.id].eq)

\* C5 (format fallback): LaTeX requested for a KaTeX container without an
\* annotation element and without a LaTeX data attribute resolves to null.
C5_NoLatexSubstitute ==
    (/\ Extracted /\ call.format = "latex"
     /\ dom[call.equation.id].kind = "katex"
     /\ QuerySelector(dom, call.equation.id, {"annotation"}) = Null
     /\ dom[call.equation.id].attr = NullStr)
    => call.value = NullStr

\* s is MathML markup with one root: it starts with a math start tag that
\* declares the namespace and has one math start tag and one math end tag
IsNamespacedMath(s) ==
    /\ s # <<>>
    /\ s[1].k = "open" /\ s[1].v = "math" /\ "xmlns" \in s[1].a
    /\ Cardinality({i \in 1..Len(s) : s[i].k = "open" /\ s[i].v = "math"}) = 1
    /\ Cardinality({i \in 1..Len(s) : s[i].k = "close" /\ s[i].v = "math"}) = 1

\* C6 (MathML namespace invariant): every non-null result of getEquationContent
\* on a tagged container for the format MathML is markup with exactly one
\* namespace-declared root math element and as many math end tags as start
\* tags, never plain text.
C6_MathMLNamespace ==
    (/\ Extracted /\ call.equation.id \in mce
     /\ EffectiveFormat = "mathml" /\ call.value # NullStr)
    => IsNamespacedMath(call.value)

\* getEquationContent, lines 228-236: no adapter of a renderer takes the element
IsGeneric(r, d, equation) ==
    /\ KaTeXContainerOf(r, d, equation) = Null
    /\ Closest(d, equation, MathJaxKinds) = Null
    /\ Closest(d, equation, {"math"}) = Null
    /\ Closest(d, equation, {"data-math"}) = Null

\* C30 (generic text is never promoted): when getEquationContent is called on
\* an element of kind Generic whose text matches the heuristic pattern, the
\* matched text is the result only if the format is unicode; a call for latex
\* or mathml does not return it.
C30_GenericNotPromoted ==
    (/\ Extracted
     /\ IsGeneric(Reg, dom, call.equation.id)
     /\ ExtractGeneric(dom, call.equation.id) # NullStr
     /\ call.value = Trim(ExtractGeneric(dom, call.equation.id)))
    => EffectiveFormat = "unicode"

\* getEquationContent, line 246: the native math element inside or around
AnyMath(d, equation) ==
    Or(QuerySelector(d, equation, {"math"}), Closest(d, equation, {"math"}))

\* the adapter of the renderer has found nothing for the call
AdapterEmpty ==
    Falsy(AdapterContent(Reg, dom, World, call.equation.id, EffectiveFormat,
                         KaTeXContainerOf(Reg, dom, call.equation.id)))

\* C31 (MathML fallback order): when getEquationContent is called for mathml,
\* the adapter of the renderer returns nothing and the element contains or is
\* inside a native math element, the result is the serialization of that math
\* element, namespaced and cleaned of spacing, and not the rendered text.
C31_MathMLFallbackFirst ==
    (/\ Extracted /\ ~call.threw /\ call.code = ""
     /\ EffectiveFormat = "mathml"
     /\ AdapterEmpty
     /\ AnyMath(dom, call.equation.id) # Null)
    => call.value =
          ValidateContent(
              CleanMathMLSpacing(EnsureMathMLNamespace(
                  OuterHTML(Reg, dom, AnyMath(dom, call.equation.id))))).v

\* what the size bound asks of a call that found the content raw
SizeRule(raw, c) ==
    IF Falsy(raw) \/ Trim(raw) = <<>> THEN TRUE
    ELSE IF StrLen(Trim(raw)) > 100000 THEN c.value = NullStr /\ c.errors = 1
    ELSE c.value = Trim(raw) /\ c.errors = 0

\* C7 (extraction size bound): content that is longer than 100,000 characters
\* after trimming makes getEquationContent resolve to null and count an error;
\* content of at most 100,000 characters is returned trimmed and otherwise
\* unchanged.
C7_SizeBound ==
    Extracted => SizeRule(FindContent(Reg, dom, World, call.equation.id, EffectiveFormat),
                          call)

\* content of 100,001 characters was found, null returned and an error counted
C7_Witness ==
    /\ Extracted /\ call.value = NullStr /\ call.code = "CONTENT_TOO_LARGE"
    /\ errorCount = 1
    /\ StrLen(Trim(FindContent(Reg, dom, World, call.equation.id, EffectiveFormat)))
          = 100001

(***************************************************************************)
(* Properties of the copy operations                                       *)
(***************************************************************************)
\* a copy operation of the kind ends in this step
Ended(kind) == lastFlow'.id # lastFlow.id /\ lastFlow'.kind = kind

\* the operation a step has started: it has ended in the same step or is
\* the last one suspended
Started == IF lastFlow'.id = copies' THEN lastFlow' ELSE flows'[Len(flows')]

\* C8 (clipboard write validation): a call of copyToClipboard with a text
\* that is empty or not a string has failed with the ExtensionError
\* INVALID_CLIPBOARD_CONTENT, one with a text of more than 1,000,000
\* characters with the ExtensionError CONTENT_TOO_LARGE, and in both cases
\* no clipboard mechanism was invoked and nothing was written.
C8_ClipboardValidation ==
    lastFlow.kind = "direct" =>
       /\ (lastFlow.text = <<>> \/ ~IsString(lastFlow.text))
             => (/\ ~lastFlow.ok
                 /\ lastFlow.code = "INVALID_CLIPBOARD_CONTENT"
                 /\ IsExtensionError(lastFlow.code)
                 /\ lastFlow.attempts = {} /\ writes = <<>>)
       /\ (IsString(lastFlow.text) /\ StrLen(lastFlow.text) > 1000000)
             => (/\ ~lastFlow.ok
                 /\ lastFlow.code = "CONTENT_TOO_LARGE"
                 /\ IsExtensionError(lastFlow.code)
                 /\ lastFlow.attempts = {} /\ writes = <<>>)

\* the first n of the contents with a blank line between them
RECURSIVE BlankLineSeparated(_, _)
BlankLineSeparated(contents, n) ==
    IF n = 0 THEN <<>>
    ELSE IF n = 1 THEN contents[1]
    ELSE BlankLineSeparated(contents, n - 1) \o <<Chr("\n", 2)>> \o contents[n]

\* the operation has extracted a content from every equation it was given
AllExtracted(f) == f.equations # <<>> /\ Len(f.contents) = Len(f.equations)

\* a multi-copy is committed in this step: its equations are the selection
\* in selection order and its contents those of the equations, in order
CommitsSelection ==
    (copies' = copies + 1 /\ Started.kind = "multi")
    => /\ Started.equations = selected
       /\ AllExtracted(Started)
             => \A i \in 1..Len(selected) :
                   Started.contents[i] =
                      GetEquationContent(RegWith(classes), dom, World,
                                         ElementArg(selected[i]), currentFormat).value

\* C9 (multi-select round trip) as the code has it: a multi-copy of n
\* selected containers whose extractions all succeed takes the n contents in
\* selection order and, when the clipboard accepts the write, writes exactly
\* one payload, the contents joined with a blank line between them, and
\* leaves the selection empty.
C9_RoundTripWhenAccepted ==
    [][/\ CommitsSelection
       /\ (Ended("multi") /\ AllExtracted(lastFlow') /\ lastFlow'.ok)
             => /\ writes' = Append(writes,
                       BlankLineSeparated(lastFlow'.contents, Len(lastFlow'.contents)))
                /\ selected' = <<>>]_vars

\* a multi-copy of two containers with different contents has ended with
\* the clipboard write accepted
C9_Witness ==
    /\ lastFlow.kind = "multi" /\ lastFlow.ok
    /\ Len(lastFlow.equations) = 2 /\ AllExtracted(lastFlow)
    /\ lastFlow.contents[1] # lastFlow.contents[2]
    /\ writes = <<lastFlow.text>>
    /\ selected = <<>>

\* C9 (multi-select round trip): a multi-copy of n selected containers whose
\* extractions all succeed writes exactly one clipboard payload, the n
\* contents joined in selection order with a blank line between them, and
\* the selection is empty afterwards.
C9_MultiSelectRoundTrip ==
    [][/\ CommitsSelection
       /\ (Ended("multi") /\ AllExtracted(lastFlow'))
             => /\ writes' = Append(writes,
                       BlankLineSeparated(lastFlow'.contents, Len(lastFlow'.contents)))
                /\ selected' = <<>>]_vars

\* what getEquationContent resolves to: null or a string that is not empty
\* after trimming
IsContentOrNull(v) == v = NullStr \/ (IsString(v) /\ Trim(v) # <<>>)

\* copyEquation / copyEquationInFormat is started in this step on an element
\* for which getEquationContent resolves to null
CopiesNull ==
    /\ copies' = copies + 1 /\ Started.kind = "single"
    /\ GetEquationContent(
          RegWith(AddClass(classes, Started.equations[1], "math-copy-copying")),
          dom, World, ElementArg(Started.equations[1]), Started.format).value = NullStr

\* C10 (extraction failures never propagate): getEquationContent never
\* throws, whatever the equation and the format are and whether or not the
\* MathJax API throws; it resolves to null or to a string that is not empty
\* after trimming.  When it resolves to null in copyEquation or
\* copyEquationInFormat, the operation ends without invoking a clipboard
\* mechanism, nothing is written, and the element is in the error state and
\* no longer in the copying state.
C10_FailuresNeverPropagate ==
    /\ [](call.op = "getEquationContent" =>
             ~call.threw /\ IsContentOrNull(call.value))
    /\ [](\A i \in 1..Len(lastFlow.contents) :
             lastFlow.contents[i] # NullStr /\ IsContentOrNull(lastFlow.contents[i]))
    /\ [][CopiesNull =>
             /\ Ended("single") /\ ~lastFlow'.ok
             /\ lastFlow'.attempts = {}
             /\ flows' = flows /\ writes' = writes /\ history' = history
             /\ "math-copy-error" \in classes'[lastFlow'.equations[1]]
             /\ "math-copy-copying" \notin classes'[lastFlow'.equations[1]]]_vars

\* a copy of an element whose content is too large: the extraction has
\* caught its own error and the element is in the error state
C10_Witness ==
    /\ lastFlow.kind = "single" /\ lastFlow.text = NullStr
    /\ errorCount = 1
    /\ "math-copy-error" \in classes[lastFlow.equations[1]]
    /\ writes = <<>>

(***************************************************************************)
(* The error budget of the extraction                                      *)
(***************************************************************************)
\* state.maxErrors
maxErrors == 10

\* how far beyond maxErrors + 1 the error counter is followed
MaxOver == 1

BudgetDocuments == {Single(DataMathEquation("alpha"))}

InitBudget ==
    /\ InitOn(BudgetDocuments) /\ PlainPage
    /\ clipboardApi = "full" /\ currentFormat = defaultFormat /\ IdleCopy

\* a call of EquationProcessor.getEquationContent, any number of times in a
\* session: nothing in the function reads state.errorCount before the try block
ExtractAgain ==
    /\ initPc = "ready"
    /\ errorCount <= maxErrors + MaxOver
    /\ \E equation \in Arguments(dom), format \in SettingsFormats :
          RecordCall(equation, format,
                     GetEquationContent(Reg, dom, World, equation, format))
    /\ UNCHANGED <<dom, inserted, envVars, apiThrows, libCalls, regVars, schedVars,
                   scanVars, copyVars>>

NextBudget ==
    \/ SettleDelay
    \/ FirstScan
    \/ Insert
    \/ ThrottleFire
    \/ ExtractAgain

SpecBudget == InitBudget /\ [][NextBudget]_vars

\* no scan is pending or running
ScansSettled ==
    /\ initPc = "ready" /\ throttleTimers = {} /\ suspended = <<>> /\ timers = <<>>

\* C11 (error budget): once state.errorCount has exceeded maxErrors, every
\* later call of getEquationContent resolves to null without attempting the
\* extraction (it yields no content and counts no further error), while the
\* scans still tag: once the scans have settled, every math, data-math and
\* MathJax element is a tagged container or inside one.
C11_ErrorBudget ==
    /\ [][(errorCount > maxErrors /\ ExtractAgain)
             => (call'.value = NullStr /\ errorCount' = errorCount)]_vars
    /\ [](errorCount > maxErrors /\ ScansSettled =>
             \A i \in 1..Len(dom) :
                dom[i].kind \in {"math", "data-math"} \cup MathJaxKinds
                   => InclAncestors(dom, i) \cap containers # {})

(***************************************************************************)
(* Properties of the teardown and of the mutation throttle                 *)
(***************************************************************************)
\* a timer or a continuation fires: a step that is neither a DOM change of the
\* page nor a command
TimerFires == dom' = dom /\ forceCount' = forceCount /\ cleaned' = cleaned

\* C12 (teardown is final): after cleanup() a timer or continuation scheduled
\* before it (settle delay, readiness wait, re-scans, batch continuations,
\* throttle timers, a suspended mutation handler) tags and wires no element,
\* installs no observer and leaves isInitialized false.
C12_TeardownFinal ==
    [][(cleaned /\ TimerFires) =>
          /\ attr' = attr /\ mce' = mce /\ handlers' = handlers /\ wire' = wire
          /\ observing' = FALSE
          /\ isInitialized' = FALSE]_vars

\* how many DOM changes the page makes in the throttle specification
MaxMutations == 3

\* the page changes a part of the DOM that holds no element the script looks
\* at (a text node is added or removed): the MutationObserver callback of
\* setupMutationObserver cancels state.throttleTimeout and sets a new timer
Mutate ==
    /\ observing
    /\ inserted < MaxMutations
    /\ inserted' = inserted + 1
    /\ throttleTimeout' = MaxId + inserted + 1
    /\ throttleTimers' = (throttleTimers \ {throttleTimeout}) \cup {MaxId + inserted + 1}
    /\ UNCHANGED <<dom, envVars, userVars, copyVars, regVars, initPc, isInitialized,
                   rescans, observing, suspended, cleaned, scanVars>>

\* a page with one equation that MathJax has rendered
ThrottleDocuments == {Single(MathJaxEquation("MathJax", FALSE, FALSE, FALSE, "none", "x"))}

InitThrottle ==
    /\ InitOn(ThrottleDocuments) /\ PlainPage
    /\ clipboardApi = "full" /\ currentFormat = defaultFormat /\ IdleCopy

NextThrottle ==
    \/ SettleDelay
    \/ FirstScan
    \/ Insert
    \/ Mutate
    \/ ThrottleFire
    \/ MutationResume

SpecThrottle == InitThrottle /\ [][NextThrottle]_vars

\* C13 (single pending scan): at most one mutation-throttle timer is pending;
\* a new mutation cancels the pending timer, also while a mutation scan is
\* suspended at an await.
C13_SinglePendingScan == Cardinality(throttleTimers) <= 1

\* timers fire and awaited promises settle: the event loop runs every timer
\* that stays due, and MathJax finishes the typesetting a mutation handler
\* waits for
FairThrottle ==
    /\ SpecThrottle
    /\ WF_vars(SettleDelay) /\ WF_vars(FirstScan)
    /\ WF_vars(ThrottleFire) /\ WF_vars(MutationResume)

\* n is an element the selectors of processMutations match
Matched(n) == n \in 1..Len(dom) /\ dom[n].kind \in {"math", "data-math", "MathJax"}

\* n is a tagged container or inside one
Tagged(n) == n \in 1..Len(dom) /\ InclAncestors(dom, n) \cap containers # {}

\* every matched element of the document is tagged
AllTagged == \A n \in 1..Len(dom) : Matched(n) => Tagged(n)

\* the elements that mutations have inserted are eventually tagged
EventuallyTagged == observing ~> AllTagged

\* C14 (mutation scans): while the script observes, the elements that
\* mutations have inserted are eventually tagged by a scan that starts after
\* the mutation; and a mutation that arrives while a throttle timer is pending,
\* in the same throttle window, leaves exactly one timer pending, so that a
\* burst triggers one scan.
C14_MutationScans ==
    /\ EventuallyTagged
    /\ [][(observing /\ inserted' = inserted + 1 /\ throttleTimers # {})
             => Cardinality(throttleTimers') = 1]_vars

\* the start of the scheduler: the INITIAL_DELAY timer fires; the readiness
\* wait ends by a timer when no MathJax is present (line 880), and by
\* MathJax's own typesetPromise or Hub.Queue callback otherwise (lines 851,
\* 864), which no timer of the script bounds
FairStartup ==
    /\ SpecThrottle
    /\ WF_vars(SettleDelay)
    /\ WF_vars(mathJax = "none" /\ FirstScan)

\* C15 (readiness wait has a timeout fallback): after startup the first scan
\* is eventually performed and the script becomes initialized, also when
\* MathJax v2 or v3 is present and never signals that typesetting is complete.
C15_ReadinessTimeout == <>(initPc = "ready" /\ isInitialized)

\* C38 (marker and membership set agree): an element is in
\* state.processedElements exactly if it carries the data-katex-processed
\* attribute; after cleanup no element is tagged by either of them.
C38_MarkerAgrees ==
    /\ pset = attr
    /\ cleaned => (pset = {} /\ attr = {})

\* C32 (bounded initialization attempts): state.initializationAttempts never
\* exceeds maxInitAttempts; a call of DOMProcessor.initialize made when the
\* attempts are used up schedules nothing; and an attempt that does not
\* complete is retried, so that the script ends up initialized or with its
\* attempts used up.
C32_BoundedAttempts ==
    /\ [](initializationAttempts <= maxInitAttempts)
    /\ [](Initialize(maxInitAttempts).pc = "aborted")
    /\ (initPc = "waiting") ~> (isInitialized \/ initializationAttempts = maxInitAttempts)

(***************************************************************************)
(* The batch chains of processBatch                                        *)
(***************************************************************************)
\* a page with two lists that each need a second batch
BatchDocument == PadDocument("mjx-chtml", PadCount + 1) \o PadDocument("math", PadCount + 1)

\* the elements whose handling throws: none, one of a first batch, the one of
\* a second batch
FaultySets == {{}, {2}, {PadCount + 1}}

InitBatch ==
    /\ InitOn({BatchDocument})
    /\ mathJax \in {"none", "v3"} /\ apiThrows = FALSE
    /\ faulty \in FaultySets
    /\ runtimeValid = TRUE /\ settings = defaultFormat /\ detached = {}
    /\ QuietBackground /\ applied = <<>> /\ multiSelection = TRUE
    /\ clipboardApi = "full" /\ currentFormat = defaultFormat /\ IdleCopy

NextBatch ==
    \/ SettleDelay
    \/ FirstScan
    \/ Rescan
    \/ ForceDetection
    \/ RunBatch
    \/ Mutate
    \/ ThrottleFire
    \/ Cleanup

SpecBatch == InitBatch /\ [][NextBatch]_vars

\* the index after the last one of the batch that continuation t handles
BatchEnd(t) == Min(t.start + BATCH_SIZE, Len(t.elements))

\* element e has been handled: it or its container carries the marker, or it
\* has no container, or its handling throws
Handled(e, marked) ==
    \/ e \in faulty \/ e \in marked
    \/ FindMathContainer(dom, e) = Null \/ FindMathContainer(dom, e) \in marked

\* continuation t runs: it handles its own indices only and all of them, it
\* is taken from the head of the queue, and its successor is put at the end
BatchRuns(t) ==
    /\ Range(order') \ Range(order)
          \subseteq {FindMathContainer(dom, t.elements[j]) : j \in (t.start + 1)..BatchEnd(t)}
    /\ \A j \in (t.start + 1)..BatchEnd(t) : Handled(t.elements[j], attr')
    /\ timers' = IF BatchEnd(t) < Len(t.elements)
                 THEN Append(Tail(timers), [t EXCEPT !.start = BatchEnd(t)])
                 ELSE Tail(timers)

\* C16 (batch ordering): a processBatch chain handles the indices of its list
\* in consecutive batches of at most BATCH_SIZE, each index once and in
\* increasing order, and ends after the last index; continuations run in the
\* order they were scheduled.
C16_BatchOrdering ==
    /\ [](\A i \in 1..Len(timers) :
             /\ 0 < timers[i].start /\ timers[i].start < Len(timers[i].elements)
             /\ timers[i].start % BATCH_SIZE = 0)
    /\ [](\A i, j \in 1..Len(order) :
             i < j => /\ order[i] # order[j]
                      /\ dom[order[i]].kind = dom[order[j]].kind => order[i] < order[j])
    /\ [][\A k \in PadKinds :
             Cardinality({c \in Range(order') \ Range(order) : dom[c].kind = k})
                <= BATCH_SIZE]_vars
    /\ [][RunBatch => BatchRuns(Head(timers))]_vars

\* both lists have been registered, each with a continuation, and the
\* continuation of the first list has run before that of the second
C16_Witness ==
    /\ timers = <<>> /\ faulty = {}
    /\ \E i \in 1..Len(order) :
          /\ order[i] = PadCount + 1
          /\ i < Len(order) /\ order[i + 1] = 2 * (PadCount + 1)

\* C27 (yield between batches): no step of the event loop registers more
\* than one batch, that is more than BATCH_SIZE containers, also when a scan
\* finds equations of several kinds.
C27_OneBatchPerTurn ==
    [][Cardinality(Range(order') \ Range(order)) <= BATCH_SIZE]_vars

\* C17 (failure isolation in a batch): when the handling of an element
\* throws, the other elements of its batch and the later batches of the list
\* are still handled and the continuation is still scheduled: the first scan
\* of the untouched page schedules the continuation of both lists, and once
\* no continuation is pending every element whose handling does not throw is
\* marked.
C17_FailureIsolation ==
    /\ [][(FirstScan /\ order = <<>>) => Len(timers') = Len(timers) + 2]_vars
    /\ []((initPc = "ready" /\ timers = <<>>) =>
             \A n \in 1..Len(BatchDocument) : n \notin faulty => n \in attr)

\* an element of a first batch throws; the rest of its batch and the element
\* of the second batch are marked
C17_Witness ==
    /\ faulty = {2} /\ initPc = "ready" /\ timers = <<>>
    /\ {1, 3, PadCount + 1} \subseteq attr /\ 2 \notin attr

(***************************************************************************)
(* The selection: toggleEquationSelection, clearSelection, the context     *)
(* menu and the messages of the popup, on a page that removes equations    *)
(***************************************************************************)

\* the kinds of element a scan selects
ScannedKinds == {"katex", "katex-html", "math", "data-math"} \cup MathJaxKinds

\* the subtree of an element
Below(n) == {i \in 1..Len(dom) : n \in InclAncestors(dom, i)}

\* the page removes a registered container from the document, with its
\* subtree (every element of it that a scan selects is already marked, so no
\* later scan looks at it); the MutationObserver callback of
\* setupMutationObserver cancels state.throttleTimeout and sets a new timer.
\* No handler of the script listens for the removal.
Remove ==
    /\ initPc = "ready"
    /\ \E equation \in handlers \ detached :
          /\ \A i \in Below(equation) : dom[i].kind \in ScannedKinds => i \in attr
          /\ detached' = detached \cup Below(equation)
          /\ IF observing
             THEN /\ throttleTimeout' = MaxId + equation
                  /\ throttleTimers' =
                        (throttleTimers \ {throttleTimeout}) \cup {MaxId + equation}
             ELSE UNCHANGED <<throttleTimeout, throttleTimers>>
    /\ UNCHANGED <<dom, inserted, bgVars, applied, initializationAttempts, multiSelection, mathJax, faulty, runtimeValid, settings, userVars,
                   copyVars, regVars, initPc, isInitialized, rescans, observing,
                   suspended, cleaned, scanVars>>

\* the extension is reloaded or removed while the page stays open:
\* chrome.runtime.id becomes undefined for the content script
Invalidate ==
    /\ runtimeValid
    /\ runtimeValid' = FALSE
    /\ UNCHANGED <<dom, inserted, bgVars, applied, initializationAttempts, multiSelection, mathJax, faulty, settings, detached, userVars,
                   copyVars, regVars, schedVars, scanVars>>

\* the formats a settingsUpdated message carries; "" when it carries none
MessageFormats == {"", "latex", "html"}

\* the settingsUpdated command of the message listener
SettingsUpdated ==
    /\ runtimeValid
    /\ \E format \in MessageFormats :
          /\ settings' = (IF format = "" THEN settings ELSE format)
          /\ currentFormat' = (IF settings' \in validFormats THEN settings'
                               ELSE defaultFormat)
    /\ UNCHANGED <<dom, inserted, bgVars, applied, initializationAttempts, multiSelection, mathJax, faulty, runtimeValid, detached, userVars,
                   regVars, schedVars, scanVars, clipboardApi, isShiftPressed,
                   selected, classes, feedback, flows, writes, history, lastFlow,
                   copies, sent, notified>>

\* a page with two equations, one of which has no content to extract
SelectDocuments ==
    {Row(<<DataMathEquation("alpha"), KaTeXEquation("none", TRUE, "none", "blank")>>)}

InitSelect ==
    /\ InitOn(SelectDocuments)
    /\ faulty = {} /\ runtimeValid = TRUE /\ settings = defaultFormat /\ detached = {}
    /\ QuietBackground /\ applied = <<>> /\ multiSelection = TRUE
    /\ clipboardApi = "full"
    /\ currentFormat = defaultFormat
    /\ IdleCopy

NextSelect ==
    \/ SettleDelay
    \/ FirstScan
    \/ ShiftKey
    \/ Click
    \/ MenuCopy
    \/ CopySelectedEquations
    \/ ClipboardSettle
    \/ FeedbackTimeout
    \/ ClearSelection
    \/ SettingsUpdated
    \/ Remove
    \/ ThrottleFire
    \/ Invalidate
    \/ Cleanup

SpecSelect == InitSelect /\ [][NextSelect]_vars

\* C18 (SelectionSet invariant): every member of state.selectedEquations is
\* a container that still carries the class math-copy-element and is still
\* attached to the document.
C18_SelectionValid ==
    \A i \in 1..Len(selected) : selected[i] \in mce /\ selected[i] \notin detached

\* the step toggles the membership of exactly one attached container
TogglesOne ==
    \E e \in handlers \ detached :
       Range(selected') = (IF e \in Range(selected) THEN Range(selected) \ {e}
                           ELSE Range(selected) \cup {e})

\* the step starts no copy and writes nothing to the clipboard
NoCopy == copies' = copies /\ flows' = flows /\ writes' = writes /\ lastFlow' = lastFlow

\* C19 (selection clearing, as stated): a click with Shift held toggles the
\* membership of the container and copies nothing; after Escape or the
\* clearSelection command the selection is empty and a selectionUpdated
\* message with count 0 has been sent.
C19_SelectionClearing ==
    [][/\ (Click /\ isShiftPressed) => (TogglesOne /\ NoCopy)
       /\ ClearSelection => (selected' = <<>> /\ sent' = <<0>>)]_vars

\* C19 (selection clearing, amended): a click with Shift held toggles the
\* membership of the container and copies nothing; after Escape or the
\* clearSelection command the selection is empty, and a selectionUpdated
\* message with count 0 has been sent if the extension context is valid.
C19_ClearingWhileValid ==
    [][/\ (Click /\ isShiftPressed) => (TogglesOne /\ NoCopy)
       /\ ClearSelection => selected' = <<>>
       /\ (ClearSelection /\ runtimeValid) => sent' = <<0>>]_vars

\* the selection is empty again and the last message carries count 0, with
\* no copy made and the selection class taken from every element
C19_Witness ==
    /\ initPc = "ready" /\ ~cleaned /\ runtimeValid
    /\ selected = <<>> /\ sent = <<0>> /\ copies = 0
    /\ \A n \in NodeIds : "math-copy-selected" \notin classes[n]

\* C20 (context-menu copy leaves global state unchanged): a call of
\* copyEquationInFormat, from its start to its end, whether it succeeds or
\* fails, leaves state.currentFormat, state.settings and the selection as
\* they were.
C20_MenuCopyFrame ==
    [][(MenuCopy \/ (ClipboardSettle /\ ~Ended("multi")))
          => /\ currentFormat' = currentFormat
             /\ settings' = settings
             /\ selected' = selected]_vars

\* a copy in a format other than the current one has succeeded while an
\* equation was selected
C20_Witness ==
    /\ lastFlow.kind = "single" /\ lastFlow.ok
    /\ lastFlow.format = "unicode" /\ currentFormat = "latex" /\ settings = "latex"
    /\ selected # <<>>

(***************************************************************************)
(* initialize(): checkIfDisabled, loadSettings, then DOMProcessor          *)
(***************************************************************************)

\* checkIfDisabled resolves: initialize returns when the page is disabled,
\* and goes on to loadSettings otherwise
CheckDisabled ==
    /\ initPc = "checking"
    /\ \E isDisabled \in BOOLEAN :
          initPc' = (IF isDisabled THEN "disabled" ELSE "loading")
    /\ UNCHANGED <<dom, inserted, envVars, userVars, copyVars, regVars, isInitialized,
                   rescans, observing, throttleTimeout, throttleTimers, suspended,
                   cleaned, scanVars>>

\* the format of mathCopySettings in chrome.storage.sync: absent (the default
\* 'mathml' of loadSettings stays), a valid one, an unrecognized one
StoredFormats == {"mathml", "latex", "html"}

\* loadSettings resolves and DOMProcessor.initialize sets its timer
LoadSettings ==
    /\ initPc = "loading"
    /\ initPc' = Initialize(initializationAttempts).pc
    /\ initializationAttempts' = Initialize(initializationAttempts).attempts
    /\ \E format \in StoredFormats : settings' = format /\ currentFormat' = format
    /\ multiSelection' \in BOOLEAN
    /\ UNCHANGED <<dom, inserted, bgVars, applied, mathJax, faulty, runtimeValid, detached, userVars,
                   regVars, isInitialized, rescans, observing, throttleTimeout,
                   throttleTimers, suspended, cleaned, scanVars, clipboardApi,
                   isShiftPressed, selected, classes, feedback, flows, writes, history,
                   lastFlow, copies, sent, notified>>

\* the script has been injected: state.settings is {} and state.currentFormat
\* is 'mathml'
InitStartup ==
    /\ InitFrom(SelectDocuments, "checking")
    /\ faulty = {} /\ runtimeValid = TRUE /\ settings = "" /\ detached = {}
    /\ QuietBackground /\ applied = <<>> /\ multiSelection = FALSE
    /\ clipboardApi = "full"
    /\ currentFormat = "mathml"
    /\ IdleCopy

\* the settingsUpdated command with settings that change multiSelection and
\* carry no format
MultiSelectionUpdated ==
    /\ runtimeValid
    /\ multiSelection' = ~multiSelection
    /\ currentFormat' = (IF settings \in validFormats THEN settings ELSE defaultFormat)
    /\ UNCHANGED <<dom, inserted, bgVars, applied, initializationAttempts, mathJax, faulty, runtimeValid, settings,
                   detached, userVars, regVars, schedVars, scanVars, clipboardApi,
                   isShiftPressed, selected, classes, feedback, flows, writes, history,
                   lastFlow, copies, sent, notified>>

NextStartup ==
    \/ CheckDisabled
    \/ LoadSettings
    \/ SettleDelay
    \/ FirstScan
    \/ Rescan
    \/ ForceDetection
    \/ SettingsUpdated
    \/ MultiSelectionUpdated
    \/ FormatChanged
    \/ ShiftKey
    \/ Click
    \/ ClipboardSettle
    \/ FeedbackTimeout

SpecStartup == InitStartup /\ [][NextStartup]_vars

\* C21 (active format is always valid): state.currentFormat is one of the
\* four formats in every state; settingsUpdated with an unrecognized format
\* sets the mathml default; formatChanged with an invalid format leaves
\* currentFormat unchanged and answers success: false.
C21_ActiveFormatValid ==
    /\ [](currentFormat \in validFormats)
    /\ [][(SettingsUpdated /\ settings' \notin validFormats)
             => currentFormat' = defaultFormat]_vars
    /\ [](\A format \in ChangedFormats \ validFormats :
             FormatChangedTo(format) = currentFormat /\ ~FormatChangedSuccess(format))

\* C25 (multi-selection can be disabled): while the multiSelection setting
\* is false, a click with Shift held adds no equation to the selection.
C25_MultiSelectionOff ==
    [][(Click /\ isShiftPressed /\ ~multiSelection)
          => Range(selected') \subseteq Range(selected)]_vars

\* C26 (disabled pages stay inert): on a page that checkIfDisabled has found
\* disabled no element is tagged and none has listeners, whatever commands
\* arrive.
C26_DisabledInert ==
    initPc = "disabled" => attr = {} /\ mce = {} /\ handlers = {}

(***************************************************************************)
(* copyToClipboard and its chain of mechanisms                             *)
(***************************************************************************)

NextClipboard ==
    \/ SettleDelay
    \/ FirstScan
    \/ ClipboardCall
    \/ ClipboardSettle

SpecClipboard == InitCopy /\ [][NextClipboard]_vars

\* the mechanisms in the order copyToClipboard tries them
Mechanisms == <<"write", "writeText", "execCommand">>

\* the mechanism exists for the call
Available(mechanism, f) ==
    CASE mechanism = "write" -> f.format = "mathml" /\ clipboardApi = "full"
      [] mechanism = "writeText" -> clipboardApi # "none"
      [] OTHER -> TRUE

\* the mechanisms invoked are available ones, and each available mechanism
\* before an invoked one was invoked too
InOrder(f) ==
    \A i \in 1..Len(Mechanisms) :
       Mechanisms[i] \in f.attempts =>
          /\ Available(Mechanisms[i], f)
          /\ \A j \in 1..(i - 1) :
                Available(Mechanisms[j], f) => Mechanisms[j] \in f.attempts

\* C29 (clipboard fallback chain): a call of copyToClipboard with a valid
\* text invokes the dual-typed write (MathML only), writeText and execCommand
\* in this order, as far as they exist; it returns normally exactly when the
\* clipboard has accepted the text, which ends the call; and it throws
\* CLIPBOARD_COPY_FAILED only when every available mechanism was invoked and
\* failed.
C29_FallbackChain ==
    /\ [](\A i \in 1..Len(flows) :
             flows[i].kind = "direct" => (InOrder(flows[i]) /\ flows[i].id # lastFlow.id))
    /\ []((lastFlow.kind = "direct" /\ CheckClipboardText(lastFlow.text).ok) =>
             /\ InOrder(lastFlow)
             /\ lastFlow.attempts # {}
             /\ ~lastFlow.ok =>
                   /\ lastFlow.code = "CLIPBOARD_COPY_FAILED"
                   /\ \A i \in 1..Len(Mechanisms) :
                         Available(Mechanisms[i], lastFlow)
                            => Mechanisms[i] \in lastFlow.attempts)
    /\ [][(Ended("direct") /\ CheckClipboardText(lastFlow'.text).ok) =>
             (lastFlow'.ok <=> writes' = Append(writes, lastFlow'.text))]_vars

\* a MathML text has gone through all three mechanisms and the call has thrown
C29_Witness ==
    /\ lastFlow.kind = "direct" /\ ~lastFlow.ok
    /\ lastFlow.code = "CLIPBOARD_COPY_FAILED"
    /\ lastFlow.attempts = {"write", "writeText", "execCommand"}
    /\ writes = <<>>

(***************************************************************************)
(* A multi-copy and what happens while it is suspended at the clipboard    *)
(***************************************************************************)

NextMulti ==
    \/ SettleDelay
    \/ FirstScan
    \/ ShiftKey
    \/ Click
    \/ CopySelectedEquations
    \/ ClipboardSettle
    \/ FeedbackTimeout
    \/ FormatChanged

SpecMulti == InitSelect /\ [][NextMulti]_vars

\* C33 (multi-copy clears only what it copied): when a multi-copy ends, every
\* container of the selection that was not in the list the multi-copy took at
\* its start is still selected.
C33_ClearsOnlyCopied ==
    [][Ended("multi") =>
          (Range(selected) \ Range(lastFlow'.equations)) \subseteq Range(selected')]_vars

\* C34 (format consistency of a multi-copy): the entry a multi-copy adds to
\* the history carries the format in which the members were extracted and
\* the text was written, also when the format is changed while the multi-copy
\* is suspended.
C34_OneFormat ==
    [][(Ended("multi") /\ lastFlow'.ok) =>
          /\ history' # <<>>
          /\ history'[1].content = lastFlow'.text
          /\ history'[1].format = lastFlow'.format]_vars

\* the copySelected command, lines 1876-1888: the response sent when
\* copySelectedEquations has resolved and the selection is sel
CopySelectedResponse(sel) == [success |-> TRUE, count |-> Len(sel)]

\* C37 (copySelected reports what was copied): the count in the response to a
\* copySelected command whose multi-copy has written to the clipboard is the
\* number of equations whose content is in the text written.
C37_CountCopied ==
    [][(Ended("multi") /\ lastFlow'.ok) =>
          CopySelectedResponse(selected').count = Len(lastFlow'.contents)]_vars

(***************************************************************************)
(* Copies that overlap on one container                                    *)
(***************************************************************************)

NextOverlap ==
    \/ SettleDelay
    \/ FirstScan
    \/ Click
    \/ ClickAgain
    \/ ClipboardSettle
    \/ FeedbackTimeout

SpecOverlap == InitSelect /\ [][NextOverlap]_vars

\* C36 (single visual state): a container carries at most one of the classes
\* math-copy-copying, math-copy-success and math-copy-error, also when a copy
\* is started on it before the feedback of the copy before has been taken
\* back.
C36_SingleVisualState ==
    \A n \in NodeIds : Cardinality(classes[n] \cap FeedbackClasses) <= 1

(***************************************************************************)
(* The feedback classes of a container                                     *)
(***************************************************************************)

NextFeedback ==
    \/ SettleDelay
    \/ FirstScan
    \/ ShiftKey
    \/ Click
    \/ MenuCopy
    \/ CopySelectedEquations
    \/ ClipboardSettle
    \/ FeedbackTimeout
    \/ MouseLeave

SpecFeedback == InitSelect /\ [][NextFeedback]_vars

\* clipboard promises settle and the feedback timers fire
FairFeedback == SpecFeedback /\ WF_vars(ClipboardSettle) /\ WF_vars(FeedbackTimeout)

\* the step ends a copy whose text the clipboard has accepted
WriteSucceeded ==
    /\ lastFlow'.id # lastFlow.id /\ lastFlow'.ok
    /\ writes' = Append(writes, lastFlow'.text)

\* C28 (record only after a successful write): the history gets an entry and
\* an equationCopied message is sent only in a step in which the clipboard
\* has accepted the text of the copy, and they carry that text; a copy that
\* fails adds no entry and sends no message, and a single copy that fails
\* leaves its container in the error state.
C28_RecordAfterWrite ==
    [][/\ history' # history
             => (WriteSucceeded /\ history'[1].content = lastFlow'.text)
       /\ notified' # notified
             => (WriteSucceeded /\ notified' = Append(notified, lastFlow'.text))
       /\ (lastFlow'.id # lastFlow.id /\ ~lastFlow'.ok)
             => /\ history' = history /\ notified' = notified
                /\ lastFlow'.kind = "single"
                      => "math-copy-error" \in classes'[lastFlow'.equations[1]]]_vars

\* a single copy has failed after every clipboard mechanism was tried
C28_Witness ==
    /\ lastFlow.kind = "single" /\ ~lastFlow.ok
    /\ lastFlow.code = "CLIPBOARD_COPY_FAILED"
    /\ history = <<>> /\ notified = <<>> /\ writes = <<>>
    /\ "math-copy-error" \in classes[lastFlow.equations[1]]

\* no container is in the copying, success or error state
AllIdle == \A n \in NodeIds : classes[n] \cap FeedbackClasses = {}

\* C22 (copy state machine returns to idle): when a copy attempt ends, each
\* container it was made on is in exactly one of the states success and
\* error and no longer in the state copying; and the containers are idle
\* again later on.
C22_ReturnsToIdle ==
    /\ [][\A n \in NodeIds :
            (lastFlow'.id # lastFlow.id /\ n \in Range(lastFlow'.equations))
               => /\ Cardinality(classes'[n] \cap
                                 {"math-copy-success", "math-copy-error"}) = 1
                  /\ "math-copy-copying" \notin classes'[n]]_vars
    /\ []<>AllIdle

(***************************************************************************)
(* The two histories: mathCopyHistory of the background script and         *)
(* state.clipboardHistory of the content script                            *)
(***************************************************************************)

\* CONSTANTS.MAX_HISTORY_ITEMS
MAX_HISTORY_ITEMS == 50

\* how many additions each history gets
MaxAdds == 3

\* history.unshift(historyItem); history.slice(0, MAX_HISTORY_ITEMS)
AddToHistory(h, item) ==
    SubSeq(<<item>> \o h, 1, Min(Len(h) + 1, MAX_HISTORY_ITEMS))

\* addToHistory with valid data, up to the point where
\* chrome.storage.local.get has answered with the stored history
AddToHistoryGet ==
    /\ historyIdCounter + Len(adding) < MaxAdds
    /\ adding' = Append(adding, mathCopyHistory)
    /\ UNCHANGED <<dom, inserted, applied, initializationAttempts, mathCopyStats, updating, multiSelection, mathJax, faulty, runtimeValid, settings, detached,
                   mathCopyHistory, historyIdCounter, userVars, copyVars, regVars,
                   schedVars, scanVars>>

\* addToHistory resumes: the item gets its id, is put in front of the history
\* that was read, and the result is written to the storage
AddToHistorySet ==
    /\ \E i \in 1..Len(adding) :
          /\ mathCopyHistory' = AddToHistory(adding[i], historyIdCounter + 1)
          /\ adding' = Without(adding, i)
    /\ historyIdCounter' = historyIdCounter + 1
    /\ UNCHANGED <<dom, inserted, applied, initializationAttempts, mathCopyStats, updating, multiSelection, mathJax, faulty, runtimeValid, settings, detached,
                   userVars, copyVars, regVars, schedVars, scanVars>>

\* a call of DOMProcessor.addToClipboardHistory
RecordCopy ==
    /\ copies < MaxAdds
    /\ copies' = copies + 1
    /\ \E format \in SettingsFormats :
          history' = AddToClipboardHistory(history, <<Chr("x", copies + 1)>>, format)
    /\ UNCHANGED <<pageVars, errorCount, currentFormat, isShiftPressed, selected,
                   classes, feedback, flows, writes, lastFlow, sent, notified>>

\* n items stored by the background script before: ids above those of the
\* additions
StoredItems(n) == [i \in 1..n |-> MaxAdds + i]

\* n items in the list of the content script
ListItems(n) == [i \in 1..n |-> [content |-> <<Chr("y", i)>>, format |-> "mathml"]]

\* both histories are empty, one short of full, or full
InitHistory ==
    /\ InitOn(SelectDocuments)
    /\ faulty = {} /\ runtimeValid = TRUE /\ settings = "mathml" /\ detached = {}
    /\ \E n \in {0, MAX_HISTORY_ITEMS - 1, MAX_HISTORY_ITEMS} :
          mathCopyHistory = StoredItems(n)
    /\ adding = <<>> /\ historyIdCounter = 0 /\ applied = <<>> /\ multiSelection = TRUE
    /\ QuietStats
    /\ clipboardApi = "full" /\ currentFormat = "mathml"
    /\ sent = NoMessage /\ notified = <<>> /\ isShiftPressed = FALSE /\ selected = <<>>
    /\ classes = [n \in NodeIds |-> {}]
    /\ feedback = [n \in NodeIds |->
                     [c \in {"math-copy-success", "math-copy-error"} |-> 0]]
    /\ flows = <<>> /\ writes = <<>> /\ lastFlow = NoFlow /\ copies = 0
    /\ \E n \in {0, MAX_CLIPBOARD_HISTORY - 1, MAX_CLIPBOARD_HISTORY} :
          history = ListItems(n)

NextHistory ==
    \/ AddToHistoryGet
    \/ AddToHistorySet
    \/ RecordCopy

SpecHistory == InitHistory /\ [][NextHistory]_vars

\* the list after an addition to a buffer of at most max items: the new item
\* first, then the items it held, without the oldest one if it was full
Pushed(h, item, max) ==
    <<item>> \o (IF Len(h) >= max THEN SubSeq(h, 1, max - 1) ELSE h)

\* C23 (history is a bounded newest-first buffer): each history holds at most
\* its maximum number of items (50 in the background store, 20 in the list
\* of the content script); an addition puts the new item first, keeps the
\* other items in their order, and evicts exactly the oldest item when the
\* buffer is full.
C23_BoundedNewestFirst ==
    /\ [](Len(mathCopyHistory) <= MAX_HISTORY_ITEMS)
    /\ [](Len(history) <= MAX_CLIPBOARD_HISTORY)
    /\ [][historyIdCounter' # historyIdCounter
             => mathCopyHistory' = Pushed(mathCopyHistory, historyIdCounter',
                                          MAX_HISTORY_ITEMS)]_vars
    /\ [][copies' # copies
             => /\ history' = Pushed(history, history'[1], MAX_CLIPBOARD_HISTORY)
                /\ history'[1].content = <<Chr("x", copies')>>]_vars

\* C35 (no lost history updates): as long as the stored history is below its
\* cap, it holds the item of every addToHistory call that has written to the
\* storage, also when the calls were interleaved at their storage awaits.
C35_NoLostUpdate ==
    Len(mathCopyHistory) < MAX_HISTORY_ITEMS
       => \A id \in 1..historyIdCounter : id \in Range(mathCopyHistory)

(***************************************************************************)
(* The statistics of the background script (updateStats)                   *)
(***************************************************************************)

\* how many updateStats calls are between their storage get and set
MaxUpdating == 2

\* how many copies the stored statistics count
MaxStatsCopies == 3

\* what updateStats is called with: a copy in a valid format, in a format
\* that is not valid or without one, a reset, an unknown action
StatsRequests ==
    {[action |-> "copy", format |-> f] : f \in {"mathml", "latex", "html", ""}}
    \cup {[action |-> "reset", format |-> ""], [action |-> "clear", format |-> ""]}

\* updateStats, lines 2583-2609: the statistics it writes when it has read
\* currentStats (the caps at Number.MAX_SAFE_INTEGER are beyond the counts
\* that MaxStatsCopies allows)
UpdateStats(currentStats, stats) ==
    IF stats.action = "copy" /\ stats.format # ""
    THEN IF stats.format \in validFormats
         THEN [totalCopies |-> currentStats.totalCopies + 1,
               formatUsage |-> [currentStats.formatUsage EXCEPT ![stats.format] = @ + 1]]
         ELSE currentStats
    ELSE IF stats.action = "reset" THEN InstallStats
    ELSE currentStats

\* updateStats is called, by addToHistory once the history is stored (line
\* 2480) or for an updateStats message, and chrome.storage.local.get has
\* answered with the stored statistics
UpdateStatsGet ==
    /\ Len(updating) < MaxUpdating
    /\ mathCopyStats.totalCopies < MaxStatsCopies
    /\ \E stats \in StatsRequests :
          updating' = Append(updating, [read |-> mathCopyStats, stats |-> stats])
    /\ UNCHANGED <<dom, inserted, applied, initializationAttempts, multiSelection,
                   mathJax, faulty, runtimeValid, settings, detached,
                   mathCopyHistory, adding, historyIdCounter, mathCopyStats,
                   userVars, copyVars, regVars, schedVars, scanVars>>

\* updateStats resumes: the statistics it has read are updated and written
UpdateStatsSet ==
    /\ \E i \in 1..Len(updating) :
          /\ mathCopyStats' = UpdateStats(updating[i].read, updating[i].stats)
          /\ updating' = Without(updating, i)
    /\ UNCHANGED <<dom, inserted, applied, initializationAttempts, multiSelection,
                   mathJax, faulty, runtimeValid, settings, detached,
                   mathCopyHistory, adding, historyIdCounter,
                   userVars, copyVars, regVars, schedVars, scanVars>>

NextStats ==
    \/ UpdateStatsGet
    \/ UpdateStatsSet

SpecStats == InitSelect /\ [][NextStats]_vars

\* the total is the sum of the counts of the formats
Consistent(s) ==
    s.totalCopies = s.formatUsage["mathml"] + s.formatUsage["latex"]
                    + s.formatUsage["unicode"] + s.formatUsage["asciimath"]

\* the call is a copy in a format that is not one of the four
InvalidCopy(stats) == stats.action = "copy" /\ stats.format \notin validFormats

\* C39 (stats stay consistent): from the statistics of the installation on
\* and with updateStats calls interleaved at their storage awaits, every
\* stored value has totalCopies equal to the sum of the four format counts,
\* and a copy in a format outside the four changes no counter of the store.
C39_StatsConsistent ==
    /\ [](Consistent(mathCopyStats))
    /\ [][\A i \in 1..Len(updating) :
             (updating' = Without(updating, i) /\ InvalidCopy(updating[i].stats))
                => mathCopyStats' = mathCopyStats]_vars

(***************************************************************************)
(* cleanMathMLSpacing applied again to its own result                      *)
(***************************************************************************)

\* the longest string cleaned
MaxSpacingLen == 3

\* how often the cleaning is applied
MaxApplications == 2

\* the lexemes of the strings: the tags and characters cleanMathMLSpacing
\* looks for, and an ordinary character
SpacingLexemes ==
    {Open("mtext", {}), Close("mtext"), Open("mpadded", {"width0"}),
     Open("mspace", {}), Open("mo", {}), Close("mo"), Chr(" ", 1), Chr("x", 1)}

SpacingInputs == UNION {[1..n -> SpacingLexemes] : n \in 1..MaxSpacingLen}

InitSpacing ==
    /\ InitOn(SelectDocuments)
    /\ faulty = {} /\ runtimeValid = TRUE /\ settings = "mathml" /\ detached = {}
    /\ mathCopyHistory = <<>> /\ adding = <<>> /\ historyIdCounter = 0
    /\ QuietStats
    /\ \E s \in SpacingInputs : applied = <<s>>
    /\ multiSelection = TRUE
    /\ clipboardApi = "full" /\ currentFormat = "mathml"
    /\ IdleCopy

\* cleanMathMLSpacing is applied to the last result
CleanSpacing ==
    /\ Len(applied) <= MaxApplications
    /\ applied' = Append(applied, CleanMathMLSpacing(applied[Len(applied)]))
    /\ UNCHANGED <<dom, inserted, multiSelection, initializationAttempts, mathJax, faulty,
                   runtimeValid, settings, detached,
                   bgVars, userVars, copyVars, regVars, schedVars, scanVars>>

NextSpacing == CleanSpacing

SpecSpacing == InitSpacing /\ [][NextSpacing]_vars

\* C24 (spacing cleanup idempotence): cleaning the result of a cleaning
\* gives that result again.
C24_SpacingIdempotent ==
    Len(applied) >= 3 => applied[3] = applied[2]

====
